---- MODULE Spec2Model ----
(***************************************************************************)
(* The paired-endpoint socket dispatcher of kernel/object/                 *)
(* socket_dispatcher.cpp as a state machine.                               *)
(*                                                                         *)
(* Two endpoints, 0 and 1, are created linked to each other.  Threads call *)
(* the public operations on either endpoint.  An operation is a sequence   *)
(* of steps; a step is what the code does atomically with respect to the   *)
(* other threads:                                                          *)
(*   - a critical section on one endpoint's lock_ that touches only that   *)
(*     endpoint (one step);                                                *)
(*   - the UpdateState call a critical section makes on the OTHER          *)
(*     endpoint while it still holds its own lock_ (a second step, with    *)
(*     the lock held in between);                                          *)
(*   - the second stage of a two-stage operation, run on the peer after    *)
(*     the first endpoint's lock_ was released.                            *)
(***************************************************************************)
EXTENDS Integers, Sequences, FiniteSets, TLC

(***************************************************************************)
(* Bounds of the model.                                                    *)
(***************************************************************************)
NumThreads == 2
BufMax == 10
MaxLen == 2
kControlMsgSize == 2

(* Length of the length prefix a datagram frame carries in the buffer. *)
kHeaderSize == 4

Threads == 1..NumThreads
Endpoints == {0, 1}
NoThread == {}

(***************************************************************************)
(* A size_t length is hi * 2^32 + lo; the cast to uint32_t keeps lo.       *)
(***************************************************************************)
Len32(n) == [hi |-> 0, lo |-> n]

Cast32(len) == [hi |-> 0, lo |-> len.lo]

IsZero(len) == len.hi = 0 /\ len.lo = 0

(* A length that does not survive the cast to uint32_t: 2^32 + 1. *)
TooLong == [hi |-> 1, lo |-> 1]

DATAGRAM == "DATAGRAM"
HAS_CONTROL == "HAS_CONTROL"
HAS_ACCEPT == "HAS_ACCEPT"

WRITABLE == "WRITABLE"
READABLE == "READABLE"
PEER_CLOSED == "PEER_CLOSED"
READ_DISABLED == "READ_DISABLED"
WRITE_DISABLED == "WRITE_DISABLED"
CONTROL_READABLE == "CONTROL_READABLE"
CONTROL_WRITABLE == "CONTROL_WRITABLE"
SHARE == "SHARE"
ACCEPT == "ACCEPT"

SHUTDOWN_READ == "SHUTDOWN_READ"
SHUTDOWN_WRITE == "SHUTDOWN_WRITE"

VARIABLES
    flags,          \* flags_ (the same on both endpoints)
    bytes,          \* the byte values the callers' buffers hold
    observed,       \* whether the threads keep the results of their operations
    handles,        \* handles[e]: e still has a user handle
    other,          \* other[e]: other_ of e is non-null
    signals,        \* signals[e]: the signal bits of e
    data,           \* data[e]: data_ of e, the inbound buffer
    read_disabled,  \* read_disabled[e]: read_disabled_
    control_msg,    \* control_msg[e]: the first control_msg_len_ bytes of control_msg_
    accept_queue,   \* accept_queue[e]: accept_queue_, a handle or NoHandle
    lock,           \* lock[e]: the threads that hold lock_ of e (at most one)
    th              \* th[t]: where thread t is in its operation, and its last result

vars == <<flags, bytes, observed, handles, other, signals, data, read_disabled,
          control_msg, accept_queue, lock, th>>

Peer(e) == 1 - e

Min(a, b) == IF a < b THEN a ELSE b

NoHandle == "none"

(***************************************************************************)
(* Thread records.  pc is "idle" between operations; self is the endpoint  *)
(* the running step acts on (this); arg holds the locals the next step     *)
(* needs; ret is the result of the thread's last completed operation.      *)
(***************************************************************************)
NoArg == <<>>
NoRet == [op |-> "none", ep |-> 0, status |-> "none", n |-> 0, out |-> <<>>]

Result(op, e, status, n, out) ==
    [op |-> op, ep |-> e, status |-> status, n |-> n, out |-> out]

Idle(t) == th[t].pc = "idle"

(* What a thread keeps of the result r. *)
Kept(r) == IF observed THEN r ELSE NoRet

(* The operation of thread t returns r. *)
Return(t, r) ==
    th' = [th EXCEPT ![t] = [pc |-> "idle", self |-> 0, arg |-> NoArg, ret |-> Kept(r)]]

(* Thread t goes on to step label, which acts on endpoint e; r is the result *)
(* the operation has already decided on, if any.                             *)
Goto(t, label, e, a, r) ==
    th' = [th EXCEPT ![t] = [pc |-> label, self |-> e, arg |-> a, ret |-> Kept(r)]]

Quiescent == \A t \in Threads : Idle(t)

(***************************************************************************)
(* Dispatcher::UpdateState(clear_mask, set_mask) on endpoint e.            *)
(***************************************************************************)
UpdateState(sig, e, clear_mask, set_mask) ==
    [sig EXCEPT ![e] = (@ \ clear_mask) \cup set_mask]

(***************************************************************************)
(* The inbound buffer.  A stream buffer is a sequence of bytes; a datagram *)
(* buffer is a sequence of frames, each a sequence of bytes that takes     *)
(* kHeaderSize more bytes of the capacity.                                 *)
(***************************************************************************)
IsDatagram == DATAGRAM \in flags

RECURSIVE FramesUsed(_)
FramesUsed(q) ==
    IF q = <<>> THEN 0 ELSE kHeaderSize + Len(Head(q)) + FramesUsed(Tail(q))

RECURSIVE FramesSize(_)
FramesSize(q) ==
    IF q = <<>> THEN 0 ELSE Len(Head(q)) + FramesSize(Tail(q))

Used(buf) == IF IsDatagram THEN FramesUsed(buf) ELSE Len(buf)

Size(buf) == IF IsDatagram THEN FramesSize(buf) ELSE Len(buf)

BufEmpty(buf) == buf = <<>>

BufFull(buf) ==
    IF IsDatagram THEN BufMax - Used(buf) < kHeaderSize ELSE Used(buf) >= BufMax

is_empty(e) == BufEmpty(data[e])

is_full(e) == BufFull(data[e])

Prefix(s, n) == SubSeq(s, 1, n)

Drop(s, n) == SubSeq(s, n + 1, Len(s))

(* WriteStream: as many bytes as fit. *)
WriteStream(buf, src, ok) ==
    LET st == Min(Len(src), BufMax - Len(buf)) IN
    IF Len(buf) >= BufMax THEN [status |-> "SHOULD_WAIT", st |-> 0, buf |-> buf]
    ELSE IF ~ok THEN [status |-> "INVALID_ARGS", st |-> 0, buf |-> buf]
    ELSE [status |-> "OK", st |-> st, buf |-> buf \o Prefix(src, st)]

(* A faulty variant: a frame that does not fit is cut to the room left. *)
WriteDatagram_Partial(buf, src, ok) ==
    LET st == Min(Len(src), BufMax - kHeaderSize - FramesUsed(buf)) IN
    IF ~ok THEN [status |-> "INVALID_ARGS", st |-> 0, buf |-> buf]
    ELSE [status |-> "OK", st |-> st, buf |-> Append(buf, Prefix(src, st))]

(* WriteDatagram: the whole frame or nothing. *)
WriteDatagram(buf, src, ok) ==
    IF kHeaderSize + Len(src) + FramesUsed(buf) > BufMax
    THEN [status |-> "SHOULD_WAIT", st |-> 0, buf |-> buf]
    ELSE IF ~ok THEN [status |-> "INVALID_ARGS", st |-> 0, buf |-> buf]
    ELSE [status |-> "OK", st |-> Len(src), buf |-> Append(buf, src)]

(* A faulty variant: a read that copies the bytes out and leaves them in *)
(* the buffer.                                                          *)
DataRead_Peek(buf, len) ==
    IF IsDatagram
    THEN LET n == Min(len, Len(Head(buf))) IN
         [st |-> n, out |-> Prefix(Head(buf), n), buf |-> buf]
    ELSE LET n == Min(len, Len(buf)) IN
         [st |-> n, out |-> Prefix(buf, n), buf |-> buf]

(* data_.Read(dst, len, datagram) on a non-empty buffer. *)
DataRead(buf, len) ==
    IF IsDatagram
    THEN LET n == Min(len, Len(Head(buf))) IN
         [st |-> n, out |-> Prefix(Head(buf), n), buf |-> Tail(buf)]
    ELSE LET n == Min(len, Len(buf)) IN
         [st |-> n, out |-> Prefix(buf, n), buf |-> Drop(buf, n)]

(* The buffers a caller may pass: len bytes, each one of `bytes'. *)
UserBufs(len) == [1..len -> bytes]

Lens == {Len32(n) : n \in 0..MaxLen} \cup {TooLong}

(***************************************************************************)
(* SocketDispatcher::Create and the constructor: the signals both          *)
(* endpoints start with.                                                   *)
(***************************************************************************)
(* A faulty variant: SHARE not among the signals a pair starts with. *)
StartingSignals_NoShare(f) ==
    {WRITABLE}
    \cup (IF HAS_CONTROL \in f THEN {CONTROL_WRITABLE} ELSE {})

StartingSignals(f) ==
    {WRITABLE}
    \cup (IF HAS_ACCEPT \in f THEN {SHARE} ELSE {})
    \cup (IF HAS_CONTROL \in f THEN {CONTROL_WRITABLE} ELSE {})

(* The two endpoints Create(f) hands out. *)
NewPair(f) ==
    /\ flags = f
    /\ handles = [e \in Endpoints |-> TRUE]
    /\ other = [e \in Endpoints |-> TRUE]
    /\ signals = [e \in Endpoints |-> StartingSignals(f)]
    /\ data = [e \in Endpoints |-> <<>>]
    /\ read_disabled = [e \in Endpoints |-> FALSE]
    /\ control_msg = [e \in Endpoints |-> <<>>]
    /\ accept_queue = [e \in Endpoints |-> NoHandle]
    /\ lock = [e \in Endpoints |-> NoThread]

InitPair(f) ==
    /\ NewPair(f)
    /\ th = [t \in Threads |-> [pc |-> "idle", self |-> 0, arg |-> NoArg, ret |-> NoRet]]

(* The flags Create accepts, and a flag it does not. *)
ZX_SOCKET_CREATE_MASK == {DATAGRAM, HAS_CONTROL, HAS_ACCEPT}

UNKNOWN_FLAG == "UNKNOWN_FLAG"

(* What Create(f) returns; ac tells whether its allocations succeed. *)
CreateStatus(f, ac) ==
    IF f \ ZX_SOCKET_CREATE_MASK # {} THEN "INVALID_ARGS"
    ELSE IF ~ac THEN "NO_MEMORY"
    ELSE "OK"

(* A failed Create(f): no endpoint, no handle. *)
NoPair(f) ==
    /\ flags = f
    /\ handles = [e \in Endpoints |-> FALSE]
    /\ other = [e \in Endpoints |-> FALSE]
    /\ signals = [e \in Endpoints |-> {}]
    /\ data = [e \in Endpoints |-> <<>>]
    /\ read_disabled = [e \in Endpoints |-> FALSE]
    /\ control_msg = [e \in Endpoints |-> <<>>]
    /\ accept_queue = [e \in Endpoints |-> NoHandle]
    /\ lock = [e \in Endpoints |-> NoThread]

(* Create(f), whose result every thread holds. *)
Create(f, ac) ==
    /\ IF CreateStatus(f, ac) = "OK" THEN NewPair(f) ELSE NoPair(f)
    /\ th = [t \in Threads |->
                [pc |-> "idle", self |-> 0, arg |-> NoArg,
                 ret |-> Result("Create", 0, CreateStatus(f, ac), 0, <<>>)]]

(* A thread may start an operation on e: it is idle and e still has a handle. *)
CanCall(t, e) == Idle(t) /\ handles[e]

Free(e) == lock[e] = NoThread

(***************************************************************************)
(* on_zero_handles: the last handle of e is closed.                        *)
(***************************************************************************)
(* A faulty variant: on_zero_handles that copies other_ and leaves it set. *)
on_zero_handles_KeepsOther(t, e) ==
    /\ CanCall(t, e)
    /\ Free(e)
    /\ handles' = [handles EXCEPT ![e] = FALSE]
    /\ IF other[e]
       THEN Goto(t, "OnPeerZeroHandles", Peer(e), NoArg, NoRet)
       ELSE Return(t, Result("on_zero_handles", e, "OK", 0, <<>>))
    /\ UNCHANGED <<flags, bytes, observed, other, signals, data, read_disabled, control_msg,
                   accept_queue, lock>>

on_zero_handles(t, e) ==
    /\ CanCall(t, e)
    /\ Free(e)
    /\ handles' = [handles EXCEPT ![e] = FALSE]
    /\ other' = [other EXCEPT ![e] = FALSE]
    /\ IF other[e]
       THEN Goto(t, "OnPeerZeroHandles", Peer(e), NoArg, NoRet)
       ELSE Return(t, Result("on_zero_handles", e, "OK", 0, <<>>))
    /\ UNCHANGED <<flags, bytes, observed, signals, data, read_disabled, control_msg,
                   accept_queue, lock>>

(* A faulty variant: OnPeerZeroHandles that leaves WRITABLE set. *)
OnPeerZeroHandlesMasks_KeepsWritable == [clear |-> {}, set |-> {PEER_CLOSED}]

(* A faulty variant: OnPeerZeroHandles that forgets PEER_CLOSED. *)
OnPeerZeroHandlesMasks_NoPeerClosed == [clear |-> {WRITABLE}, set |-> {}]

OnPeerZeroHandlesMasks == [clear |-> {WRITABLE}, set |-> {PEER_CLOSED}]

OnPeerZeroHandles(t) ==
    LET e == th[t].self
        m == OnPeerZeroHandlesMasks IN
    /\ th[t].pc = "OnPeerZeroHandles"
    /\ Free(e)
    /\ other' = [other EXCEPT ![e] = FALSE]
    /\ signals' = UpdateState(signals, e, m.clear, m.set)
    /\ Return(t, Result("on_zero_handles", Peer(e), "OK", 0, <<>>))
    /\ UNCHANGED <<flags, bytes, observed, handles, data, read_disabled, control_msg,
                   accept_queue, lock>>

(***************************************************************************)
(* Shutdown(how) and ShutdownOther(how).                                   *)
(***************************************************************************)
Hows == SUBSET {SHUTDOWN_READ, SHUTDOWN_WRITE}

WantSignals(how) ==
    (IF SHUTDOWN_READ \in how THEN {READ_DISABLED} ELSE {})
    \cup (IF SHUTDOWN_WRITE \in how THEN {WRITE_DISABLED} ELSE {})

HaveSignalsOf(sig, e) == sig[e] \cap {READ_DISABLED, WRITE_DISABLED}

HaveSignals(e) == HaveSignalsOf(signals, e)

(* A faulty variant: Shutdown returns early as soon as every requested bit *)
(* is set, whatever else is set.                                           *)
ShutdownReturnsEarly_Subset(sig, e, how) == WantSignals(how) \subseteq HaveSignalsOf(sig, e)

(* Shutdown returns early, before any update and before ShutdownOther, *)
(* when the requested bits are exactly the bits set on e.              *)
ShutdownReturnsEarly(sig, e, how) == WantSignals(how) = HaveSignalsOf(sig, e)

(* A faulty variant: a Shutdown(WRITE) that leaves WRITABLE set. *)
ShutdownMasks_KeepsWritable(e, how) ==
    [clear |-> {},
     set |-> (IF SHUTDOWN_READ \in how /\ is_empty(e) THEN {READ_DISABLED} ELSE {})
             \cup (IF SHUTDOWN_WRITE \in how THEN {WRITE_DISABLED} ELSE {})]

(* The masks Shutdown applies to its own endpoint e. *)
ShutdownMasks(e, how) ==
    [clear |-> IF SHUTDOWN_WRITE \in how THEN {WRITABLE} ELSE {},
     set |-> (IF SHUTDOWN_READ \in how /\ is_empty(e) THEN {READ_DISABLED} ELSE {})
             \cup (IF SHUTDOWN_WRITE \in how THEN {WRITE_DISABLED} ELSE {})]

(* The latches and signals after the critical section of Shutdown on e, *)
(* from the latches rd and the signals sig.                             *)
ShutdownSelfState(sig, rd, e, how) ==
    [read_disabled |-> [rd EXCEPT ![e] = @ \/ SHUTDOWN_READ \in how],
     signals |-> UpdateState(sig, e, ShutdownMasks(e, how).clear,
                             ShutdownMasks(e, how).set)]

Shutdown(t, e, how) ==
    /\ CanCall(t, e)
    /\ Free(e)
    /\ IF ShutdownReturnsEarly(signals, e, how)
       THEN /\ Return(t, Result("Shutdown", e, "OK", 0, <<>>))
            /\ UNCHANGED <<signals, read_disabled>>
       ELSE /\ read_disabled' =
                   ShutdownSelfState(signals, read_disabled, e, how).read_disabled
            /\ signals' = ShutdownSelfState(signals, read_disabled, e, how).signals
            /\ IF other[e]
               THEN Goto(t, "ShutdownOther", Peer(e), [how |-> how], NoRet)
               ELSE Return(t, Result("Shutdown", e, "OK", 0, <<>>))
    /\ UNCHANGED <<flags, bytes, observed, handles, other, data, control_msg, accept_queue, lock>>

(* A faulty variant: a ShutdownOther that does not write-disable the peer *)
(* of an endpoint that shut down reading.                                *)
ShutdownOtherMasks_NoWriteDisabled(e, how) ==
    [clear |-> IF SHUTDOWN_READ \in how THEN {WRITABLE} ELSE {},
     set |-> IF SHUTDOWN_WRITE \in how /\ is_empty(e) THEN {READ_DISABLED} ELSE {}]

(* The masks ShutdownOther applies to endpoint e, the peer of the caller. *)
ShutdownOtherMasks(e, how) ==
    [clear |-> IF SHUTDOWN_READ \in how THEN {WRITABLE} ELSE {},
     set |-> (IF SHUTDOWN_READ \in how THEN {WRITE_DISABLED} ELSE {})
             \cup (IF SHUTDOWN_WRITE \in how /\ is_empty(e) THEN {READ_DISABLED} ELSE {})]

(* A faulty variant: the latch flipped, not set, by the peer's Shutdown. *)
ShutdownOtherState_Flips(sig, rd, e, how) ==
    [read_disabled |-> [rd EXCEPT ![e] = (@ # (SHUTDOWN_WRITE \in how))],
     signals |-> UpdateState(sig, e, ShutdownOtherMasks(e, how).clear,
                             ShutdownOtherMasks(e, how).set)]

(* The latches and signals after ShutdownOther on e, from the latches rd *)
(* and the signals sig.                                                  *)
ShutdownOtherState(sig, rd, e, how) ==
    [read_disabled |-> [rd EXCEPT ![e] = @ \/ SHUTDOWN_WRITE \in how],
     signals |-> UpdateState(sig, e, ShutdownOtherMasks(e, how).clear,
                             ShutdownOtherMasks(e, how).set)]

ShutdownOther(t) ==
    LET e == th[t].self
        how == th[t].arg.how IN
    /\ th[t].pc = "ShutdownOther"
    /\ Free(e)
    /\ read_disabled' = ShutdownOtherState(signals, read_disabled, e, how).read_disabled
    /\ signals' = ShutdownOtherState(signals, read_disabled, e, how).signals
    /\ Return(t, Result("Shutdown", Peer(e), "OK", 0, <<>>))
    /\ UNCHANGED <<flags, bytes, observed, handles, other, data, control_msg, accept_queue, lock>>

(* A whole Shutdown(how) on e with no step of another thread in between, *)
(* from the latches rd and the signals sig: what it returns and leaves.  *)
ShutdownRun(sig, rd, e, how) ==
    LET own == ShutdownSelfState(sig, rd, e, how)
        peer == ShutdownOtherState(own.signals, own.read_disabled, Peer(e), how) IN
    IF ShutdownReturnsEarly(sig, e, how)
    THEN [status |-> "OK", read_disabled |-> rd, signals |-> sig]
    ELSE IF other[e]
    THEN [status |-> "OK", read_disabled |-> peer.read_disabled, signals |-> peer.signals]
    ELSE [status |-> "OK", read_disabled |-> own.read_disabled, signals |-> own.signals]

(***************************************************************************)
(* Write(src, len) and WriteSelf.                                          *)
(***************************************************************************)
(* A faulty variant: the length looked at before the peer reference and *)
(* the signals.                                                         *)
WriteCheck_LengthFirst(e, len) ==
    IF IsZero(len) THEN "OK"
    ELSE IF len # Cast32(len) THEN "INVALID_ARGS"
    ELSE IF ~other[e] THEN "PEER_CLOSED"
    ELSE IF WRITE_DISABLED \in signals[e] THEN "BAD_STATE"
    ELSE "call"

(* What Write returns before it reaches WriteSelf, or "call". *)
WriteCheck(e, len) ==
    IF ~other[e] THEN "PEER_CLOSED"
    ELSE IF WRITE_DISABLED \in signals[e] THEN "BAD_STATE"
    ELSE IF IsZero(len) THEN "OK"
    ELSE IF len # Cast32(len) THEN "INVALID_ARGS"
    ELSE "call"

Write(t, e, len, ok) ==
    /\ CanCall(t, e)
    /\ Free(e)
    /\ IF WriteCheck(e, len) = "call"
       THEN \E src \in UserBufs(len.lo) :
                Goto(t, "WriteSelf", Peer(e), [src |-> src, ok |-> ok], NoRet)
       ELSE Return(t, Result("Write", e, WriteCheck(e, len), 0, <<>>))
    /\ UNCHANGED <<flags, bytes, observed, handles, other, signals, data, read_disabled,
                   control_msg, accept_queue, lock>>

(* WriteSelf raises READABLE on its own endpoint. *)
WriteSelfSetsReadable(st, was_empty) == st > 0 /\ was_empty

(* A faulty variant: the fullness test made on the buffer as it was before *)
(* the write.                                                              *)
WriteSelfClearsWritable_Stale(e, buf) == other[e] /\ BufFull(data[e])

(* WriteSelf clears WRITABLE on the writer. *)
WriteSelfClearsWritable(e, buf) == other[e] /\ BufFull(buf)

WriteSelf(t) ==
    LET e == th[t].self
        a == th[t].arg
        was_empty == is_empty(e)
        w == IF IsDatagram THEN WriteDatagram(data[e], a.src, a.ok)
             ELSE WriteStream(data[e], a.src, a.ok) IN
    /\ th[t].pc = "WriteSelf"
    /\ Free(e)
    /\ IF is_full(e)
       THEN /\ Return(t, Result("Write", Peer(e), "SHOULD_WAIT", 0, <<>>))
            /\ UNCHANGED <<data, signals, lock>>
       ELSE IF w.status # "OK"
       THEN /\ Return(t, Result("Write", Peer(e), w.status, 0, <<>>))
            /\ UNCHANGED <<data, signals, lock>>
       ELSE /\ data' = [data EXCEPT ![e] = w.buf]
            /\ signals' = IF WriteSelfSetsReadable(w.st, was_empty)
                          THEN UpdateState(signals, e, {}, {READABLE})
                          ELSE signals
            /\ IF WriteSelfClearsWritable(e, w.buf)
               THEN /\ lock' = [lock EXCEPT ![e] = {t}]
                    /\ Goto(t, "WriteSelfPeer", e, NoArg,
                            Result("Write", Peer(e), "OK", w.st, <<>>))
               ELSE /\ Return(t, Result("Write", Peer(e), "OK", w.st, <<>>))
                    /\ UNCHANGED lock
    /\ UNCHANGED <<flags, bytes, observed, handles, other, read_disabled, control_msg,
                   accept_queue>>

(* A faulty variant: a WriteSelf that returns with lock_ of e still held. *)
WriteSelfPeer_KeepsLock(t) ==
    LET e == th[t].self IN
    /\ th[t].pc = "WriteSelfPeer"
    /\ lock[e] = {t}
    /\ signals' = UpdateState(signals, Peer(e), {WRITABLE}, {})
    /\ Return(t, th[t].ret)
    /\ UNCHANGED <<flags, bytes, observed, handles, other, data, read_disabled, control_msg,
                   accept_queue, lock>>

(* other_->UpdateState(ZX_SOCKET_WRITABLE, 0u), with lock_ of e still held. *)
WriteSelfPeerMasks == [clear |-> {WRITABLE}, set |-> {}]

WriteSelfPeer(t) ==
    LET e == th[t].self IN
    /\ th[t].pc = "WriteSelfPeer"
    /\ lock[e] = {t}
    /\ signals' = UpdateState(signals, Peer(e), WriteSelfPeerMasks.clear, WriteSelfPeerMasks.set)
    /\ lock' = [lock EXCEPT ![e] = NoThread]
    /\ Return(t, th[t].ret)
    /\ UNCHANGED <<flags, bytes, observed, handles, other, data, read_disabled, control_msg,
                   accept_queue>>

(***************************************************************************)
(* Read(dst, len).                                                         *)
(***************************************************************************)
(* A faulty variant: the latch looked at before the peer reference. *)
ReadEmptyStatus_LatchFirst(e) ==
    IF read_disabled[e] THEN "BAD_STATE"
    ELSE IF ~other[e] THEN "PEER_CLOSED"
    ELSE "SHOULD_WAIT"

(* A faulty variant: the latch not looked at. *)
ReadEmptyStatus_NoLatch(e) ==
    IF ~other[e] THEN "PEER_CLOSED" ELSE "SHOULD_WAIT"

(* The error of a Read on an empty buffer. *)
ReadEmptyStatus(e) ==
    IF ~other[e] THEN "PEER_CLOSED"
    ELSE IF read_disabled[e] THEN "BAD_STATE"
    ELSE "SHOULD_WAIT"

(* A faulty variant: the query answered after the buffer has been found *)
(* non-empty.                                                            *)
ReadCheck_QueryLast(e, dst, len) ==
    IF len # Cast32(len) THEN "INVALID_ARGS"
    ELSE IF is_empty(e) THEN ReadEmptyStatus(e)
    ELSE IF ~dst /\ IsZero(len) THEN "query"
    ELSE "read"

(* What Read does before it touches the buffer: "query" for the size, an *)
(* error, or "read".                                                     *)
ReadCheck(e, dst, len) ==
    IF ~dst /\ IsZero(len) THEN "query"
    ELSE IF len # Cast32(len) THEN "INVALID_ARGS"
    ELSE IF is_empty(e) THEN ReadEmptyStatus(e)
    ELSE "read"

(* A faulty variant: a Read that leaves READABLE set on the emptied buffer. *)
ReadEmptiedMasks_KeepsReadable(e) ==
    [clear |-> {},
     set |-> IF read_disabled[e] THEN {READ_DISABLED} ELSE {}]

(* The masks Read applies once it has emptied the buffer of e. *)
ReadEmptiedMasks(e) ==
    [clear |-> {READABLE},
     set |-> IF read_disabled[e] THEN {READ_DISABLED} ELSE {}]

(* Read sets WRITABLE on the peer. *)
ReadSetsWritable(e, was_full, st) == other[e] /\ was_full /\ st > 0

Read(t, e, dst, len) ==
    LET was_full == is_full(e)
        r == DataRead(data[e], len.lo) IN
    /\ CanCall(t, e)
    /\ Free(e)
    /\ dst \/ IsZero(len)    \* a null dst is passed with len = 0 only
    /\ IF ReadCheck(e, dst, len) = "query"
       THEN /\ Return(t, Result("Read", e, "OK", Size(data[e]), <<>>))
            /\ UNCHANGED <<data, signals, lock>>
       ELSE IF ReadCheck(e, dst, len) # "read"
       THEN /\ Return(t, Result("Read", e, ReadCheck(e, dst, len), 0, <<>>))
            /\ UNCHANGED <<data, signals, lock>>
       ELSE /\ data' = [data EXCEPT ![e] = r.buf]
            /\ signals' = IF BufEmpty(r.buf)
                          THEN UpdateState(signals, e, ReadEmptiedMasks(e).clear,
                                           ReadEmptiedMasks(e).set)
                          ELSE signals
            /\ IF ReadSetsWritable(e, was_full, r.st)
               THEN /\ lock' = [lock EXCEPT ![e] = {t}]
                    /\ Goto(t, "ReadPeer", e, NoArg,
                            Result("Read", e, "OK", r.st, r.out))
               ELSE /\ Return(t, Result("Read", e, "OK", r.st, r.out))
                    /\ UNCHANGED lock
    /\ UNCHANGED <<flags, bytes, observed, handles, other, read_disabled, control_msg,
                   accept_queue>>

(* A faulty variant: the update of the peer's signals made under the peer's *)
(* lock_ as well, so that the reader holds both.                            *)
ReadPeer_TakesPeerLock(t) ==
    LET e == th[t].self IN
    /\ th[t].pc = "ReadPeer"
    /\ lock[e] = {t}
    /\ Free(Peer(e))
    /\ signals' = UpdateState(signals, Peer(e), {}, {WRITABLE})
    /\ lock' = [lock EXCEPT ![e] = NoThread]
    /\ Return(t, th[t].ret)
    /\ UNCHANGED <<flags, bytes, observed, handles, other, data, read_disabled, control_msg,
                   accept_queue>>

(* other_->UpdateState(0u, ZX_SOCKET_WRITABLE), with lock_ of e still held. *)
ReadPeerMasks == [clear |-> {}, set |-> {WRITABLE}]

ReadPeer(t) ==
    LET e == th[t].self IN
    /\ th[t].pc = "ReadPeer"
    /\ lock[e] = {t}
    /\ signals' = UpdateState(signals, Peer(e), ReadPeerMasks.clear, ReadPeerMasks.set)
    /\ lock' = [lock EXCEPT ![e] = NoThread]
    /\ Return(t, th[t].ret)
    /\ UNCHANGED <<flags, bytes, observed, handles, other, data, read_disabled, control_msg,
                   accept_queue>>

(***************************************************************************)
(* WriteControl(src, len), WriteControlSelf and ReadControl(dst, len).     *)
(***************************************************************************)
CtlLens == 0..(kControlMsgSize + 1)

(* A faulty variant: the length looked at before the flags. *)
WriteControlCheck_LengthFirst(len) ==
    IF len = 0 THEN "INVALID_ARGS"
    ELSE IF len > kControlMsgSize THEN "OUT_OF_RANGE"
    ELSE IF HAS_CONTROL \notin flags THEN "BAD_STATE"
    ELSE "lock"

(* What WriteControl returns before it takes lock_, or "lock". *)
WriteControlCheck(len) ==
    IF HAS_CONTROL \notin flags THEN "BAD_STATE"
    ELSE IF len = 0 THEN "INVALID_ARGS"
    ELSE IF len > kControlMsgSize THEN "OUT_OF_RANGE"
    ELSE "lock"

WriteControl(t, e, len, ok) ==
    /\ CanCall(t, e)
    /\ IF WriteControlCheck(len) # "lock"
       THEN Return(t, Result("WriteControl", e, WriteControlCheck(len), 0, <<>>))
       ELSE /\ Free(e)
            /\ IF ~other[e]
               THEN Return(t, Result("WriteControl", e, "PEER_CLOSED", 0, <<>>))
               ELSE \E src \in UserBufs(len) :
                        Goto(t, "WriteControlSelf", Peer(e), [src |-> src, ok |-> ok],
                             NoRet)
    /\ UNCHANGED <<flags, bytes, observed, handles, other, signals, data,
                   read_disabled, control_msg, accept_queue, lock>>

(* A faulty variant: a WriteControlSelf that raises READABLE as well. *)
WriteControlSelfMasks_SetsReadable == [clear |-> {}, set |-> {CONTROL_READABLE, READABLE}]

(* The masks WriteControlSelf applies to its own endpoint. *)
WriteControlSelfMasks == [clear |-> {}, set |-> {CONTROL_READABLE}]

(* A faulty variant: a WriteControlSelf that raises CONTROL_READABLE *)
(* before the copy from the caller's buffer has succeeded.          *)
WriteControlSelf_SignalsFirst(t) ==
    LET e == th[t].self
        a == th[t].arg
        m == WriteControlSelfMasks IN
    /\ th[t].pc = "WriteControlSelf"
    /\ Free(e)
    /\ IF control_msg[e] # <<>>
       THEN /\ Return(t, Result("WriteControl", Peer(e), "SHOULD_WAIT", 0, <<>>))
            /\ UNCHANGED <<control_msg, signals, lock>>
       ELSE IF ~a.ok
       THEN /\ Return(t, Result("WriteControl", Peer(e), "INVALID_ARGS", 0, <<>>))
            /\ signals' = UpdateState(signals, e, m.clear, m.set)
            /\ UNCHANGED <<control_msg, lock>>
       ELSE /\ control_msg' = [control_msg EXCEPT ![e] = a.src]
            /\ signals' = UpdateState(signals, e, m.clear, m.set)
            /\ IF other[e]
               THEN /\ lock' = [lock EXCEPT ![e] = {t}]
                    /\ Goto(t, "WriteControlSelfPeer", e, NoArg,
                            Result("WriteControl", Peer(e), "OK", 0, <<>>))
               ELSE /\ Return(t, Result("WriteControl", Peer(e), "OK", 0, <<>>))
                    /\ UNCHANGED lock
    /\ UNCHANGED <<flags, bytes, observed, handles, other, data, read_disabled,
                   accept_queue>>

WriteControlSelf(t) ==
    LET e == th[t].self
        a == th[t].arg
        m == WriteControlSelfMasks IN
    /\ th[t].pc = "WriteControlSelf"
    /\ Free(e)
    /\ IF control_msg[e] # <<>>
       THEN /\ Return(t, Result("WriteControl", Peer(e), "SHOULD_WAIT", 0, <<>>))
            /\ UNCHANGED <<control_msg, signals, lock>>
       ELSE IF ~a.ok
       THEN /\ Return(t, Result("WriteControl", Peer(e), "INVALID_ARGS", 0, <<>>))
            /\ UNCHANGED <<control_msg, signals, lock>>
       ELSE /\ control_msg' = [control_msg EXCEPT ![e] = a.src]
            /\ signals' = UpdateState(signals, e, m.clear, m.set)
            /\ IF other[e]
               THEN /\ lock' = [lock EXCEPT ![e] = {t}]
                    /\ Goto(t, "WriteControlSelfPeer", e, NoArg,
                            Result("WriteControl", Peer(e), "OK", 0, <<>>))
               ELSE /\ Return(t, Result("WriteControl", Peer(e), "OK", 0, <<>>))
                    /\ UNCHANGED lock
    /\ UNCHANGED <<flags, bytes, observed, handles, other, data, read_disabled,
                   accept_queue>>

(* other_->UpdateState(ZX_SOCKET_CONTROL_WRITABLE, 0u), lock_ of e still held. *)
WriteControlSelfPeerMasks == [clear |-> {CONTROL_WRITABLE}, set |-> {}]

WriteControlSelfPeer(t) ==
    LET e == th[t].self IN
    /\ th[t].pc = "WriteControlSelfPeer"
    /\ lock[e] = {t}
    /\ signals' = UpdateState(signals, Peer(e), WriteControlSelfPeerMasks.clear, WriteControlSelfPeerMasks.set)
    /\ lock' = [lock EXCEPT ![e] = NoThread]
    /\ Return(t, th[t].ret)
    /\ UNCHANGED <<flags, bytes, observed, handles, other, data, read_disabled,
                   control_msg, accept_queue>>

(* A faulty variant: a ReadControl that leaves CONTROL_READABLE set. *)
ReadControlMasks_KeepsReadable == [clear |-> {}, set |-> {}]

(* The masks ReadControl applies to its own endpoint. *)
ReadControlMasks == [clear |-> {CONTROL_READABLE}, set |-> {}]

(* A faulty variant: a ReadControl that keeps what the caller did not ask *)
(* for in the slot.                                                       *)
ReadControlCopy_KeepsRest(msg, len) ==
    [copy_len |-> Min(Len(msg), len),
     out |-> Prefix(msg, Min(Len(msg), len)),
     msg |-> Drop(msg, Min(Len(msg), len))]

(* What ReadControl copies out of the stored message msg for a caller     *)
(* length len, and what it leaves in the slot.                            *)
ReadControlCopy(msg, len) ==
    [copy_len |-> Min(Len(msg), len),
     out |-> Prefix(msg, Min(Len(msg), len)),
     msg |-> <<>>]

ReadControl(t, e, len, ok) ==
    LET c == ReadControlCopy(control_msg[e], len)
        m == ReadControlMasks IN
    /\ CanCall(t, e)
    /\ IF HAS_CONTROL \notin flags
       THEN /\ Return(t, Result("ReadControl", e, "BAD_STATE", 0, <<>>))
            /\ UNCHANGED <<control_msg, signals, lock>>
       ELSE /\ Free(e)
            /\ IF control_msg[e] = <<>>
               THEN /\ Return(t, Result("ReadControl", e, "SHOULD_WAIT", 0, <<>>))
                    /\ UNCHANGED <<control_msg, signals, lock>>
               ELSE IF ~ok
               THEN /\ Return(t, Result("ReadControl", e, "INVALID_ARGS", 0, <<>>))
                    /\ UNCHANGED <<control_msg, signals, lock>>
               ELSE /\ control_msg' = [control_msg EXCEPT ![e] = c.msg]
                    /\ signals' = UpdateState(signals, e, m.clear, m.set)
                    /\ IF other[e]
                       THEN /\ lock' = [lock EXCEPT ![e] = {t}]
                            /\ Goto(t, "ReadControlPeer", e, NoArg,
                                    Result("ReadControl", e, "OK", c.copy_len, c.out))
                       ELSE /\ Return(t, Result("ReadControl", e, "OK", c.copy_len,
                                                c.out))
                            /\ UNCHANGED lock
    /\ UNCHANGED <<flags, bytes, observed, handles, other, data, read_disabled,
                   accept_queue>>

(* A faulty variant: a ReadControl that does not tell the peer. *)
ReadControlPeerMasks_NoWritable == [clear |-> {}, set |-> {}]

(* other_->UpdateState(0u, ZX_SOCKET_CONTROL_WRITABLE), lock_ of e still held. *)
ReadControlPeerMasks == [clear |-> {}, set |-> {CONTROL_WRITABLE}]

ReadControlPeer(t) ==
    LET e == th[t].self IN
    /\ th[t].pc = "ReadControlPeer"
    /\ lock[e] = {t}
    /\ signals' = UpdateState(signals, Peer(e), ReadControlPeerMasks.clear, ReadControlPeerMasks.set)
    /\ lock' = [lock EXCEPT ![e] = NoThread]
    /\ Return(t, th[t].ret)
    /\ UNCHANGED <<flags, bytes, observed, handles, other, data, read_disabled,
                   control_msg, accept_queue>>

(***************************************************************************)
(* Share(h), ShareSelf(h) and Accept(h).  A handle is named by its target: *)
(* an endpoint of this pair, an endpoint of another pair without           *)
(* HAS_ACCEPT, or an endpoint of another pair with HAS_ACCEPT.             *)
(***************************************************************************)
Handles == {"this0", "this1", "plain", "sharable"}

(* The handle whose target is endpoint e of this pair. *)
This(e) == IF e = 0 THEN "this0" ELSE "this1"

(* to_send->flags_ & ZX_SOCKET_HAS_ACCEPT, for the target of h. *)
TargetHasAccept(h) ==
    \/ h = "sharable"
    \/ h \in {"this0", "this1"} /\ HAS_ACCEPT \in flags

(* A faulty variant: a check that lets the peer through. *)
CheckShareableStatus_PeerAllowed(e, h) ==
    IF h = "sharable" \/ h = This(e) THEN "BAD_STATE" ELSE "OK"

(* A faulty variant: a check that does not look at the target's flags. *)
CheckShareableStatus_NoFlags(e, h) ==
    IF h = This(e) \/ (other[e] /\ h = This(Peer(e))) THEN "BAD_STATE" ELSE "OK"

(* What CheckShareable(to_send) returns on e, h being a handle to to_send. *)
CheckShareableStatus(e, h) ==
    IF TargetHasAccept(h) \/ h = This(e) \/ (other[e] /\ h = This(Peer(e)))
    THEN "BAD_STATE"
    ELSE "OK"

CheckShareable(t, e, h) ==
    /\ CanCall(t, e)
    /\ Free(e)
    /\ Return(t, Result("CheckShareable", e, CheckShareableStatus(e, h), 0, <<h>>))
    /\ UNCHANGED <<flags, bytes, observed, handles, other, signals, data,
                   read_disabled, control_msg, accept_queue, lock>>

(* Share(h) on e, run by thread t. *)
ShareFrom(t, e, h) ==
    /\ IF HAS_ACCEPT \notin flags
       THEN Return(t, Result("Share", e, "NOT_SUPPORTED", 0, <<>>))
       ELSE /\ Free(e)
            /\ IF ~other[e]
               THEN Return(t, Result("Share", e, "PEER_CLOSED", 0, <<>>))
               ELSE Goto(t, "ShareSelf", Peer(e), [h |-> h], NoRet)
    /\ UNCHANGED <<flags, bytes, observed, handles, other, signals, data,
                   read_disabled, control_msg, accept_queue, lock>>

Share(t, e, h) ==
    /\ CanCall(t, e)
    /\ ShareFrom(t, e, h)

(* The caller of Share: it calls CheckShareable on the handle's target    *)
(* first and goes on to Share only when that returned OK.  The caller     *)
(* holds a reference to e, so that Share runs even if the last handle of  *)
(* e is closed in between.                                                *)
CheckedShare(t, e, h) ==
    /\ CanCall(t, e)
    /\ Free(e)
    /\ IF CheckShareableStatus(e, h) = "OK"
       THEN Goto(t, "Share", e, [h |-> h], NoRet)
       ELSE Return(t, Result("CheckShareable", e, CheckShareableStatus(e, h), 0, <<h>>))
    /\ UNCHANGED <<flags, bytes, observed, handles, other, signals, data,
                   read_disabled, control_msg, accept_queue, lock>>

CheckedShareShare(t) ==
    /\ th[t].pc = "Share"
    /\ ShareFrom(t, th[t].self, th[t].arg.h)

(* The masks ShareSelf applies to its own endpoint. *)
ShareSelfMasks == [clear |-> {}, set |-> {ACCEPT}]

ShareSelf(t) ==
    LET e == th[t].self
        m == ShareSelfMasks IN
    /\ th[t].pc = "ShareSelf"
    /\ Free(e)
    /\ IF accept_queue[e] # NoHandle
       THEN /\ Return(t, Result("Share", Peer(e), "SHOULD_WAIT", 0, <<>>))
            /\ UNCHANGED <<accept_queue, signals>>
       ELSE /\ accept_queue' = [accept_queue EXCEPT ![e] = th[t].arg.h]
            /\ signals' = UpdateState(signals, e, m.clear, m.set)
            /\ IF other[e]
               THEN Goto(t, "ShareSelfPeer", e, NoArg,
                         Result("Share", Peer(e), "OK", 0, <<>>))
               ELSE Return(t, Result("Share", Peer(e), "OK", 0, <<>>))
    /\ UNCHANGED <<flags, bytes, observed, handles, other, data, read_disabled,
                   control_msg, lock>>

(* other->UpdateState(ZX_SOCKET_SHARE, 0), after lock_ of e was released. *)
ShareSelfPeerMasks == [clear |-> {SHARE}, set |-> {}]

ShareSelfPeer(t) ==
    LET e == th[t].self IN
    /\ th[t].pc = "ShareSelfPeer"
    /\ signals' = UpdateState(signals, Peer(e), ShareSelfPeerMasks.clear, ShareSelfPeerMasks.set)
    /\ Return(t, th[t].ret)
    /\ UNCHANGED <<flags, bytes, observed, handles, other, data, read_disabled,
                   control_msg, accept_queue, lock>>

(* A faulty variant: an Accept that leaves ACCEPT set. *)
AcceptMasks_KeepsAccept == [clear |-> {}, set |-> {}]

(* The masks Accept applies to its own endpoint. *)
AcceptMasks == [clear |-> {ACCEPT}, set |-> {}]

Accept(t, e) ==
    LET m == AcceptMasks IN
    /\ CanCall(t, e)
    /\ IF HAS_ACCEPT \notin flags
       THEN /\ Return(t, Result("Accept", e, "NOT_SUPPORTED", 0, <<>>))
            /\ UNCHANGED <<accept_queue, signals, lock>>
       ELSE /\ Free(e)
            /\ IF accept_queue[e] = NoHandle
               THEN /\ Return(t, Result("Accept", e, "SHOULD_WAIT", 0, <<>>))
                    /\ UNCHANGED <<accept_queue, signals, lock>>
               ELSE /\ accept_queue' = [accept_queue EXCEPT ![e] = NoHandle]
                    /\ signals' = UpdateState(signals, e, m.clear, m.set)
                    /\ IF other[e]
                       THEN /\ lock' = [lock EXCEPT ![e] = {t}]
                            /\ Goto(t, "AcceptPeer", e, NoArg,
                                    Result("Accept", e, "OK", 0, <<accept_queue[e]>>))
                       ELSE /\ Return(t, Result("Accept", e, "OK", 0,
                                                <<accept_queue[e]>>))
                            /\ UNCHANGED lock
    /\ UNCHANGED <<flags, bytes, observed, handles, other, data, read_disabled,
                   control_msg>>

(* A faulty variant: an Accept that does not tell the peer. *)
AcceptPeerMasks_NoShare == [clear |-> {}, set |-> {}]

(* other_->UpdateState(0, ZX_SOCKET_SHARE), with lock_ of e still held. *)
AcceptPeerMasks == [clear |-> {}, set |-> {SHARE}]

AcceptPeer(t) ==
    LET e == th[t].self IN
    /\ th[t].pc = "AcceptPeer"
    /\ lock[e] = {t}
    /\ signals' = UpdateState(signals, Peer(e), AcceptPeerMasks.clear, AcceptPeerMasks.set)
    /\ lock' = [lock EXCEPT ![e] = NoThread]
    /\ Return(t, th[t].ret)
    /\ UNCHANGED <<flags, bytes, observed, handles, other, data, read_disabled,
                   control_msg, accept_queue>>

(***************************************************************************)
(* user_signal(clear_mask, set_mask, peer) and UserSignalSelf.  Neither    *)
(* UpdateState call is made under lock_.                                   *)
(***************************************************************************)
USER_SIGNAL_0 == "USER_SIGNAL_0"
USER_SIGNAL_1 == "USER_SIGNAL_1"

(* A faulty variant: a mask of user signals that lets READABLE through. *)
ZX_USER_SIGNAL_ALL_AndReadable == {USER_SIGNAL_0, USER_SIGNAL_1, READABLE}

ZX_USER_SIGNAL_ALL == {USER_SIGNAL_0, USER_SIGNAL_1}

(* The masks a caller may pass: user bits, and one bit that is not a user bit. *)
SignalMasks == SUBSET (ZX_USER_SIGNAL_ALL \cup {READABLE})

user_signal(t, e, clear_mask, set_mask, peer) ==
    /\ CanCall(t, e)
    /\ IF (set_mask \ ZX_USER_SIGNAL_ALL) # {} \/ (clear_mask \ ZX_USER_SIGNAL_ALL) # {}
       THEN /\ Return(t, Result("user_signal", e, "INVALID_ARGS", 0, <<>>))
            /\ UNCHANGED signals
       ELSE IF ~peer
       THEN /\ signals' = UpdateState(signals, e, clear_mask, set_mask)
            /\ Return(t, Result("user_signal", e, "OK", 0, <<>>))
       ELSE /\ Free(e)
            /\ UNCHANGED signals
            /\ IF ~other[e]
               THEN Return(t, Result("user_signal", e, "PEER_CLOSED", 0, <<>>))
               ELSE Goto(t, "UserSignalSelf", Peer(e),
                         [clear |-> clear_mask, set |-> set_mask], NoRet)
    /\ UNCHANGED <<flags, bytes, observed, handles, other, data, read_disabled,
                   control_msg, accept_queue, lock>>

UserSignalSelf(t) ==
    LET e == th[t].self
        a == th[t].arg IN
    /\ th[t].pc = "UserSignalSelf"
    /\ signals' = UpdateState(signals, e, a.clear, a.set)
    /\ Return(t, Result("user_signal", Peer(e), "OK", 0, <<>>))
    /\ UNCHANGED <<flags, bytes, observed, handles, other, data, read_disabled,
                   control_msg, accept_queue, lock>>

(***************************************************************************)
(* The data path: Write, Read, Shutdown and on_zero_handles on a stream or *)
(* a datagram pair.                                                        *)
(***************************************************************************)
Init ==
    /\ bytes = {0}
    /\ observed = FALSE
    /\ \E f \in {{}, {DATAGRAM}} : InitPair(f)

DoWrite == \E t \in Threads, e \in Endpoints, len \in Lens, ok \in BOOLEAN :
               Write(t, e, len, ok)
DoWriteSelf == \E t \in Threads : WriteSelf(t)
DoWriteSelfPeer == \E t \in Threads : WriteSelfPeer(t)
DoRead == \E t \in Threads, e \in Endpoints, dst \in BOOLEAN, len \in Lens :
              Read(t, e, dst, len)
DoReadPeer == \E t \in Threads : ReadPeer(t)
DoShutdown == \E t \in Threads, e \in Endpoints, how \in Hows : Shutdown(t, e, how)
DoShutdownOther == \E t \in Threads : ShutdownOther(t)
DoZeroHandles == \E t \in Threads, e \in Endpoints : on_zero_handles(t, e)
DoOnPeerZeroHandles == \E t \in Threads : OnPeerZeroHandles(t)

Next ==
    \/ DoWrite
    \/ DoWriteSelf
    \/ DoWriteSelfPeer
    \/ DoRead
    \/ DoReadPeer
    \/ DoShutdown
    \/ DoShutdownOther
    \/ DoZeroHandles
    \/ DoOnPeerZeroHandles

Spec == Init /\ [][Next]_vars

(***************************************************************************)
(* The control channel: WriteControl, ReadControl and on_zero_handles on a *)
(* pair with or without HAS_CONTROL.                                       *)
(***************************************************************************)
InitControl ==
    /\ bytes = {0}
    /\ observed = FALSE
    /\ \E f \in {{}, {HAS_CONTROL}} : InitPair(f)

DoWriteControl == \E t \in Threads, e \in Endpoints, len \in CtlLens, ok \in BOOLEAN :
                      WriteControl(t, e, len, ok)
DoWriteControlSelf == \E t \in Threads : WriteControlSelf(t)
DoWriteControlSelfPeer == \E t \in Threads : WriteControlSelfPeer(t)
DoReadControl == \E t \in Threads, e \in Endpoints, len \in CtlLens, ok \in BOOLEAN :
                     ReadControl(t, e, len, ok)
DoReadControlPeer == \E t \in Threads : ReadControlPeer(t)

NextControl ==
    \/ DoWriteControl
    \/ DoWriteControlSelf
    \/ DoWriteControlSelfPeer
    \/ DoReadControl
    \/ DoReadControlPeer
    \/ DoZeroHandles
    \/ DoOnPeerZeroHandles

SpecControl == InitControl /\ [][NextControl]_vars

(***************************************************************************)
(* The accept queue: Share, Accept and on_zero_handles on a pair with or   *)
(* without HAS_ACCEPT.                                                     *)
(***************************************************************************)
InitAccept ==
    /\ bytes = {0}
    /\ observed = FALSE
    /\ \E f \in {{}, {HAS_ACCEPT}} : InitPair(f)

DoShare == \E t \in Threads, e \in Endpoints, h \in Handles : Share(t, e, h)
DoShareSelf == \E t \in Threads : ShareSelf(t)
DoShareSelfPeer == \E t \in Threads : ShareSelfPeer(t)
DoAccept == \E t \in Threads, e \in Endpoints : Accept(t, e)
DoAcceptPeer == \E t \in Threads : AcceptPeer(t)

NextAccept ==
    \/ DoShare
    \/ DoShareSelf
    \/ DoShareSelfPeer
    \/ DoAccept
    \/ DoAcceptPeer
    \/ DoZeroHandles
    \/ DoOnPeerZeroHandles

SpecAccept == InitAccept /\ [][NextAccept]_vars

(***************************************************************************)
(* The user signals: user_signal and on_zero_handles.                      *)
(***************************************************************************)
InitUser ==
    /\ bytes = {0}
    /\ observed = FALSE
    /\ InitPair({})

DoUserSignal == \E t \in Threads, e \in Endpoints, clear_mask \in SignalMasks,
                   set_mask \in SignalMasks, peer \in BOOLEAN :
                    user_signal(t, e, clear_mask, set_mask, peer)
DoUserSignalSelf == \E t \in Threads : UserSignalSelf(t)

NextUser ==
    \/ DoUserSignal
    \/ DoUserSignalSelf
    \/ DoZeroHandles
    \/ DoOnPeerZeroHandles

SpecUser == InitUser /\ [][NextUser]_vars

(***************************************************************************)
(* The user signals, with callers that keep what the operations return.    *)
(***************************************************************************)
InitUserKept ==
    /\ bytes = {0}
    /\ observed = TRUE
    /\ InitPair({})

(* The masks these callers pass: no bit, one user bit, and a user bit     *)
(* together with a bit that is not a user bit.                            *)
KeptMasks == {{}, {USER_SIGNAL_0}, {USER_SIGNAL_1}, {USER_SIGNAL_0, READABLE}}

DoUserSignal0 == \E t \in Threads, clear_mask \in KeptMasks, set_mask \in KeptMasks,
                    peer \in BOOLEAN :
                     user_signal(t, 0, clear_mask, set_mask, peer)

NextUserKept ==
    \/ DoUserSignal0
    \/ DoUserSignalSelf
    \/ DoZeroHandles
    \/ DoOnPeerZeroHandles

SpecUserKept == InitUserKept /\ [][NextUserKept]_vars

(***************************************************************************)
(* One direction of a stream pair: threads that Write on endpoint 0 and a  *)
(* thread that Reads on endpoint 1, with buffers of two byte values and    *)
(* callers that keep what the operations return.                           *)
(***************************************************************************)
InitStream ==
    /\ bytes = {0, 1}
    /\ observed = TRUE
    /\ InitPair({})

(* The threads that write, and the thread that reads. *)
Writers == {t \in Threads : t < NumThreads}
Readers == {NumThreads}

DoWrite0 == \E t \in Writers, len \in Lens, ok \in BOOLEAN : Write(t, 0, len, ok)
DoRead1 == \E t \in Readers, dst \in BOOLEAN, len \in Lens : Read(t, 1, dst, len)

NextStream ==
    \/ DoWrite0
    \/ DoWriteSelf
    \/ DoWriteSelfPeer
    \/ DoRead1
    \/ DoReadPeer

SpecStream == InitStream /\ [][NextStream]_vars

(***************************************************************************)
(* One direction of a datagram pair: Write on endpoint 0 and Read on       *)
(* endpoint 1 by all threads, with buffers of two byte values and callers  *)
(* that keep what the operations return.                                   *)
(***************************************************************************)
InitDatagram ==
    /\ bytes = {0, 1}
    /\ observed = TRUE
    /\ InitPair({DATAGRAM})

DoWriteFrame == \E t \in Threads, len \in Lens, ok \in BOOLEAN : Write(t, 0, len, ok)
DoReadFrame == \E t \in Threads, dst \in BOOLEAN, len \in Lens : Read(t, 1, dst, len)

NextDatagram ==
    \/ DoWriteFrame
    \/ DoWriteSelf
    \/ DoWriteSelfPeer
    \/ DoReadFrame
    \/ DoReadPeer

SpecDatagram == InitDatagram /\ [][NextDatagram]_vars

(***************************************************************************)
(* The half-close of a stream pair: endpoint 0 writes and shuts down its   *)
(* write side, and nothing is read yet.                                    *)
(***************************************************************************)
InitHalfClose ==
    /\ bytes = {0}
    /\ observed = TRUE
    /\ InitPair({})

DoShutdownWrite0 == \E t \in Threads : Shutdown(t, 0, {SHUTDOWN_WRITE})

NextHalfClose ==
    \/ DoWrite0
    \/ DoWriteSelf
    \/ DoWriteSelfPeer
    \/ DoShutdownWrite0
    \/ DoShutdownOther

SpecHalfClose == InitHalfClose /\ [][NextHalfClose]_vars

(***************************************************************************)
(* The data path of a datagram pair: all the operations of Next, on a      *)
(* buffer that holds one or two frames.                                    *)
(***************************************************************************)
InitFrames ==
    /\ bytes = {0}
    /\ observed = FALSE
    /\ InitPair({DATAGRAM})

SpecFrames == InitFrames /\ [][Next]_vars

(***************************************************************************)
(* Create with any flags, with and without memory, followed by Shutdown    *)
(* and on_zero_handles.                                                    *)
(***************************************************************************)
InitCreate ==
    /\ bytes = {0}
    /\ observed = TRUE
    /\ \E f \in SUBSET (ZX_SOCKET_CREATE_MASK \cup {UNKNOWN_FLAG}), ac \in BOOLEAN :
           Create(f, ac)

NextCreate ==
    \/ DoShutdown
    \/ DoShutdownOther
    \/ DoZeroHandles
    \/ DoOnPeerZeroHandles

SpecCreate == InitCreate /\ [][NextCreate]_vars

(***************************************************************************)
(* The accept queue with callers that keep what the operations return:     *)
(* CheckShareable, Share, Accept and on_zero_handles.                      *)
(***************************************************************************)
InitShare ==
    /\ bytes = {0}
    /\ observed = TRUE
    /\ \E f \in {{}, {HAS_ACCEPT}} : InitPair(f)

DoCheckShareable == \E t \in Threads, e \in Endpoints, h \in Handles :
                        CheckShareable(t, e, h)

NextShare ==
    \/ DoCheckShareable
    \/ DoShare
    \/ DoShareSelf
    \/ DoShareSelfPeer
    \/ DoAccept
    \/ DoAcceptPeer
    \/ DoZeroHandles
    \/ DoOnPeerZeroHandles

SpecShare == InitShare /\ [][NextShare]_vars

(***************************************************************************)
(* The accept queue when every Share is made by a caller that has called   *)
(* CheckShareable first.                                                   *)
(***************************************************************************)
DoCheckedShare == \E t \in Threads, e \in Endpoints, h \in Handles :
                      CheckedShare(t, e, h)
DoCheckedShareShare == \E t \in Threads : CheckedShareShare(t)

NextCheckedShare ==
    \/ DoCheckShareable
    \/ DoCheckedShare
    \/ DoCheckedShareShare
    \/ DoShareSelf
    \/ DoShareSelfPeer
    \/ DoAccept
    \/ DoAcceptPeer
    \/ DoZeroHandles
    \/ DoOnPeerZeroHandles

SpecCheckedShare == InitShare /\ [][NextCheckedShare]_vars

(***************************************************************************)
(* One direction of the control channel of a pair with or without          *)
(* HAS_CONTROL: WriteControl on endpoint 0, ReadControl on endpoint 1 and  *)
(* on_zero_handles, with buffers of two byte values and callers that keep  *)
(* what the operations return.                                             *)
(***************************************************************************)
InitControlKept ==
    /\ bytes = {0, 1}
    /\ observed = TRUE
    /\ \E f \in {{}, {HAS_CONTROL}} : InitPair(f)

DoWriteControl0 == \E t \in Threads, len \in CtlLens, ok \in BOOLEAN :
                       WriteControl(t, 0, len, ok)
DoReadControl1 == \E t \in Threads, len \in CtlLens, ok \in BOOLEAN :
                      ReadControl(t, 1, len, ok)

NextControlKept ==
    \/ DoWriteControl0
    \/ DoWriteControlSelf
    \/ DoWriteControlSelfPeer
    \/ DoReadControl1
    \/ DoReadControlPeer
    \/ DoZeroHandles
    \/ DoOnPeerZeroHandles

SpecControlKept == InitControlKept /\ [][NextControlKept]_vars

(***************************************************************************)
(* The data path and the control channel together, on a stream pair with   *)
(* HAS_CONTROL: data and control messages go from endpoint 0 to endpoint   *)
(* 1, and either endpoint may be shut down.                                *)
(***************************************************************************)
InitBoth ==
    /\ bytes = {0}
    /\ observed = FALSE
    /\ InitPair({HAS_CONTROL})

NextBoth ==
    \/ DoWrite0
    \/ DoWriteSelf
    \/ DoWriteSelfPeer
    \/ DoRead1
    \/ DoReadPeer
    \/ DoShutdown
    \/ DoShutdownOther
    \/ DoWriteControl0
    \/ DoWriteControlSelf
    \/ DoWriteControlSelfPeer
    \/ DoReadControl1
    \/ DoReadControlPeer

SpecBoth == InitBoth /\ [][NextBoth]_vars

(***************************************************************************)
(* Properties of the data path.                                            *)
(***************************************************************************)
Has(e, sig) == sig \in signals[e]

Linked == \A e \in Endpoints : other[e] /\ handles[e]

(* C1: in every reachable state no endpoint has both WRITE_DISABLED and   *)
(* WRITABLE set.                                                          *)
C1_WriteDisabledExcludesWritable ==
    \A e \in Endpoints : ~(Has(e, WRITE_DISABLED) /\ Has(e, WRITABLE))

(* C2: in every reachable state READABLE is set on an endpoint if and     *)
(* only if its inbound buffer is non-empty.                               *)
C2_ReadableIffNonEmpty ==
    \A e \in Endpoints : Has(e, READABLE) <=> ~is_empty(e)

(* A buffer holding several bytes or frames, on an endpoint whose read    *)
(* side was shut down meanwhile, and a buffer a Read has just emptied.    *)
C2_Witness ==
    \E e \in Endpoints :
        /\ Has(e, READABLE) /\ Len(data[e]) >= 2 /\ read_disabled[e]
        /\ is_empty(Peer(e)) /\ Has(Peer(e), WRITE_DISABLED)

(* C3: in every reachable state READ_DISABLED is set on an endpoint if    *)
(* and only if its read_disabled latch is true and its inbound buffer is  *)
(* empty.                                                                 *)
C3_ReadDisabledIffLatchedAndEmpty ==
    \A e \in Endpoints : Has(e, READ_DISABLED) <=> (read_disabled[e] /\ is_empty(e))

(* C4: in every reachable state PEER_CLOSED is set on an endpoint if and  *)
(* only if its peer reference is null.                                    *)
C4_PeerClosedIffNoPeer ==
    \A e \in Endpoints : Has(e, PEER_CLOSED) <=> ~other[e]

(* C4, amended: PEER_CLOSED on an endpoint implies that its peer          *)
(* reference is null, and on an endpoint that still has a handle a null   *)
(* peer reference implies PEER_CLOSED.                                    *)
C4_PeerClosedAmended ==
    \A e \in Endpoints :
        /\ Has(e, PEER_CLOSED) => ~other[e]
        /\ (handles[e] /\ ~other[e]) => Has(e, PEER_CLOSED)

(* The peer of a closed endpoint after OnPeerZeroHandles has run on it.   *)
C4_Witness ==
    \E e \in Endpoints :
        /\ ~handles[e] /\ ~other[e] /\ ~Has(e, PEER_CLOSED)
        /\ handles[Peer(e)] /\ ~other[Peer(e)] /\ Has(Peer(e), PEER_CLOSED)
        /\ Quiescent

(* C5: in every reachable state, WRITABLE on an endpoint implies that its *)
(* peer reference is non-null and the peer's inbound buffer is not full.  *)
C5_WritableImpliesRoom ==
    \A e \in Endpoints : Has(e, WRITABLE) => (other[e] /\ ~is_full(Peer(e)))

(* C5, amended: when no operation is in progress, WRITABLE on an endpoint *)
(* that still has a handle implies that its peer reference is non-null    *)
(* and the peer's inbound buffer is not full.                             *)
C5_WritableImpliesRoomAmended ==
    Quiescent =>
        \A e \in Endpoints :
            (handles[e] /\ Has(e, WRITABLE)) => (other[e] /\ ~is_full(Peer(e)))

(* A full inbound buffer whose writer has lost WRITABLE, next to a        *)
(* direction that is still writable.                                      *)
C5_Witness ==
    \E e \in Endpoints :
        /\ Quiescent /\ handles[e] /\ handles[Peer(e)]
        /\ is_full(Peer(e)) /\ ~Has(e, WRITABLE) /\ ~Has(e, WRITE_DISABLED)
        /\ Has(Peer(e), WRITABLE) /\ ~is_empty(e)

(* C6: when no operation is in progress, an endpoint whose peer reference *)
(* is non-null, whose peer's inbound buffer is not full and which has     *)
(* WRITE_DISABLED clear has WRITABLE set.                                 *)
C6_NoLostWritable ==
    Quiescent =>
        \A e \in Endpoints :
            (other[e] /\ ~is_full(Peer(e)) /\ ~Has(e, WRITE_DISABLED))
                => Has(e, WRITABLE)

(* C14: from every reachable state in which Shutdown(how) can run on an   *)
(* endpoint, for how = READ, WRITE or READ|WRITE, running it twice in     *)
(* succession leaves the signals and the read_disabled latches of both    *)
(* endpoints as running it once does, and both calls return OK; the       *)
(* inbound buffers are not touched.                                       *)
C14_ShutdownIdempotent ==
    \A e \in Endpoints, how \in Hows \ {{}} :
        handles[e] =>
            LET once == ShutdownRun(signals, read_disabled, e, how)
                twice == ShutdownRun(once.signals, once.read_disabled, e, how) IN
            /\ once.status = "OK"
            /\ twice = once

(* The state a Shutdown(READ) on a non-empty endpoint leaves: the latch   *)
(* is set and the peer write-disabled, but READ_DISABLED is not raised,   *)
(* so that a second Shutdown(READ) does not return early.                 *)
C14_Witness ==
    \E e \in Endpoints :
        /\ Quiescent /\ Linked
        /\ read_disabled[e] /\ ~is_empty(e) /\ ~Has(e, READ_DISABLED)
        /\ Has(Peer(e), WRITE_DISABLED)
        /\ WantSignals({SHUTDOWN_READ}) # HaveSignals(e)

(* What a Shutdown(how) on e that is not short-circuited leaves, run from *)
(* the present state with no step of another thread in between.  With a   *)
(* peer: for READ, e's latch is set, READ_DISABLED is set on e iff e's    *)
(* inbound buffer is empty, and the peer has WRITABLE clear and           *)
(* WRITE_DISABLED set; for WRITE, e has WRITABLE clear and WRITE_DISABLED *)
(* set, the peer's latch is set and READ_DISABLED is set on the peer iff  *)
(* the peer's inbound buffer is empty.  Without a peer, the same on e and *)
(* nothing on the peer.  It returns OK.                                   *)
Propagates(e, how) ==
    LET run == ShutdownRun(signals, read_disabled, e, how)
        p == Peer(e) IN
    /\ run.status = "OK"
    /\ SHUTDOWN_READ \in how =>
           /\ run.read_disabled[e]
           /\ READ_DISABLED \in run.signals[e] <=> is_empty(e)
           /\ other[e] => /\ WRITABLE \notin run.signals[p]
                          /\ WRITE_DISABLED \in run.signals[p]
    /\ SHUTDOWN_WRITE \in how =>
           /\ WRITABLE \notin run.signals[e]
           /\ WRITE_DISABLED \in run.signals[e]
           /\ other[e] => /\ run.read_disabled[p]
                          /\ READ_DISABLED \in run.signals[p] <=> is_empty(p)
    /\ ~other[e] => /\ run.signals[p] = signals[p]
                    /\ run.read_disabled[p] = read_disabled[p]

(* C30: when a Shutdown(how) on E is not short-circuited, then after it   *)
(* returns: for READ, E's read_disabled is true, READ_DISABLED is set on  *)
(* E iff E's inbound was empty, and the peer has WRITABLE clear and       *)
(* WRITE_DISABLED set; for WRITE, E has WRITABLE clear and WRITE_DISABLED *)
(* set, the peer's read_disabled is true and READ_DISABLED is set on the  *)
(* peer iff the peer's inbound was empty; with the peer already closed    *)
(* only E's own bits are updated and OK is returned.                      *)
C30_ShutdownPropagates ==
    \A e \in Endpoints, how \in Hows :
        (handles[e] /\ WantSignals(how) # HaveSignals(e)) => Propagates(e, how)

(* Endpoint e's peer has completed Shutdown(WRITE) and is still open: the *)
(* peer is write-disabled, e's latch is set, no Shutdown is under way.    *)
HalfClosed(e) ==
    /\ handles[Peer(e)] /\ other[e]
    /\ Has(Peer(e), WRITE_DISABLED) /\ read_disabled[e]
    /\ \A t \in Threads : th[t].pc # "ShutdownOther"

(* C15: once the peer of e has shut down writing and is still open, the   *)
(* bytes in e's inbound buffer stay readable: READ_DISABLED is clear on e *)
(* while the buffer is non-empty and set once it is empty, and a Read on  *)
(* the empty buffer returns BAD_STATE.                                    *)
C15_HalfCloseDrain ==
    \A e \in Endpoints :
        HalfClosed(e) =>
            /\ Has(e, READ_DISABLED) <=> is_empty(e)
            /\ is_empty(e) => ReadEmptyStatus(e) = "BAD_STATE"

(* Endpoint 0 has written, 8 bytes are in endpoint 1's inbound buffer,   *)
(* and Shutdown(WRITE) on endpoint 0 has returned.                        *)
HalfCloseDone ==
    /\ Quiescent
    /\ Len(data[1]) = 8
    /\ read_disabled[1]

(* C16: after Create(0), a Write of 8 bytes on endpoint 0 and             *)
(* Shutdown(WRITE) on endpoint 0, endpoint 1 has WRITE_DISABLED set,      *)
(* WRITABLE clear and READ_DISABLED clear.                                *)
C16_HalfCloseSignals ==
    HalfCloseDone =>
        /\ Has(1, WRITE_DISABLED)
        /\ ~Has(1, WRITABLE)
        /\ ~Has(1, READ_DISABLED)

(* C16, amended: it is endpoint 0 that has WRITE_DISABLED set and         *)
(* WRITABLE clear; endpoint 1 has READ_DISABLED clear, READABLE set, and  *)
(* its own WRITABLE and WRITE_DISABLED as they were.                      *)
C16_HalfCloseSignalsAmended ==
    HalfCloseDone =>
        /\ Has(0, WRITE_DISABLED)
        /\ ~Has(0, WRITABLE)
        /\ ~Has(1, READ_DISABLED)
        /\ Has(1, READABLE)
        /\ Has(1, WRITABLE)
        /\ ~Has(1, WRITE_DISABLED)

(* The scenario has run. *)
C16_Witness ==
    /\ HalfCloseDone
    /\ signals[0] = {WRITE_DISABLED}
    /\ signals[1] = {WRITABLE, READABLE}

(* on_zero_handles of e's peer has completed and e is still open. *)
PeerClosedDone(e) ==
    /\ handles[e] /\ ~handles[Peer(e)]
    /\ \A t \in Threads : ~(th[t].pc = "OnPeerZeroHandles" /\ th[t].self = e)

(* What a Read with a destination of length len finds on e, when e's      *)
(* peer has closed: the buffered bytes while there are some, PEER_CLOSED  *)
(* once there are none.                                                   *)
ReadAfterPeerClose(e, len) ==
    IF is_empty(e)
    THEN ReadCheck(e, TRUE, len) = "PEER_CLOSED"
    ELSE /\ ReadCheck(e, TRUE, len) = "read"
         /\ DataRead(data[e], len.lo).out =
                Prefix(IF IsDatagram THEN Head(data[e]) ELSE data[e],
                       DataRead(data[e], len.lo).st)

(* What holds on e once on_zero_handles of its peer has completed, for    *)
(* the Reads with a length in lens: PEER_CLOSED is set and WRITABLE       *)
(* clear, a Write of any length returns PEER_CLOSED, a Read returns the   *)
(* buffered bytes while there are some and PEER_CLOSED afterwards.        *)
PeerClose(e, lens) ==
    PeerClosedDone(e) =>
        /\ Has(e, PEER_CLOSED) /\ ~Has(e, WRITABLE)
        /\ \A len \in Lens : WriteCheck(e, len) = "PEER_CLOSED"
        /\ \A len \in lens : ReadAfterPeerClose(e, len)

(* C17: once on_zero_handles of an endpoint's peer has completed, the     *)
(* endpoint has PEER_CLOSED set and WRITABLE clear, every Write on it     *)
(* returns PEER_CLOSED, every Read with a destination returns the         *)
(* buffered bytes while the inbound buffer is non-empty and PEER_CLOSED   *)
(* once it is empty, also when read_disabled is latched.                  *)
C17_PeerClose == \A e \in Endpoints : PeerClose(e, Lens)

(* C17, amended: the same, for the Reads whose length fits in 32 bits; a  *)
(* Read with a longer length returns INVALID_ARGS.                        *)
C17_PeerCloseAmended ==
    \A e \in Endpoints :
        /\ PeerClose(e, Lens \ {TooLong})
        /\ PeerClosedDone(e) => ReadCheck(e, TRUE, TooLong) = "INVALID_ARGS"

(* The peer has closed; the endpoint is shut down in both directions and  *)
(* empty, its peer having closed after the endpoint's last Read.          *)
C17_Witness ==
    \E e \in Endpoints :
        /\ PeerClosedDone(e) /\ Quiescent
        /\ read_disabled[e] /\ Has(e, WRITE_DISABLED)
        /\ is_empty(e) /\ Has(e, READ_DISABLED)

(* The order of the checks of Write on e. *)
WriteCheckOrder(e) ==
    /\ ~other[e] => \A len \in Lens : WriteCheck(e, len) = "PEER_CLOSED"
    /\ (other[e] /\ Has(e, WRITE_DISABLED)) =>
           \A len \in Lens : WriteCheck(e, len) = "BAD_STATE"
    /\ (other[e] /\ ~Has(e, WRITE_DISABLED)) =>
           \A len \in Lens :
               WriteCheck(e, len) = IF IsZero(len) THEN "OK"
                                   ELSE IF len = TooLong THEN "INVALID_ARGS"
                                   ELSE "call"

(* A step in which a thread leaves Write: it changes nothing but the      *)
(* thread, it reports no byte written, and it goes on to WriteSelf only   *)
(* from an endpoint with a peer and without WRITE_DISABLED, with at least *)
(* one byte.                                                              *)
WriteChecksOnly ==
    \A t \in Threads, e \in Endpoints, len \in Lens, ok \in BOOLEAN :
        Write(t, e, len, ok) =>
            /\ UNCHANGED <<handles, other, signals, data, read_disabled, lock>>
            /\ th'[t].pc = "WriteSelf" =>
                   /\ other[e] /\ ~Has(e, WRITE_DISABLED)
                   /\ th'[t].self = Peer(e)
                   /\ Len(th'[t].arg.src) = len.lo /\ len.lo > 0 /\ len.hi = 0
            /\ th'[t].pc # "WriteSelf" => Idle(t)'

(* C18: Write checks in this order and changes no state when a check      *)
(* fails: PEER_CLOSED if the peer reference is null; else BAD_STATE if    *)
(* WRITE_DISABLED is set on the writer; else OK with nothing written and  *)
(* nothing changed for len = 0; else INVALID_ARGS if len does not fit in  *)
(* 32 bits; only then does it go on to the peer's inbound buffer.         *)
C18_WriteCheckOrder ==
    /\ [](\A e \in Endpoints : WriteCheckOrder(e))
    /\ [][WriteChecksOnly]_vars

(* An open endpoint whose peer has closed and which is write-disabled as  *)
(* well: two checks fail, the first one decides.                          *)
C18_Witness ==
    \E e \in Endpoints :
        /\ handles[e] /\ ~other[e] /\ Has(e, WRITE_DISABLED)
        /\ Quiescent

ReadEmptyErrors == {"PEER_CLOSED", "BAD_STATE", "SHOULD_WAIT"}

(* What a Read with a destination and a length in lens returns on e: on   *)
(* the empty buffer PEER_CLOSED without a peer, else BAD_STATE with the   *)
(* latch set, else SHOULD_WAIT; on a non-empty buffer none of the three.  *)
ReadErrors(e, lens) ==
    \A len \in lens :
        /\ (is_empty(e) /\ ~other[e]) => ReadCheck(e, TRUE, len) = "PEER_CLOSED"
        /\ (is_empty(e) /\ other[e] /\ read_disabled[e]) =>
               ReadCheck(e, TRUE, len) = "BAD_STATE"
        /\ (is_empty(e) /\ other[e] /\ ~read_disabled[e]) =>
               ReadCheck(e, TRUE, len) = "SHOULD_WAIT"
        /\ ~is_empty(e) => ReadCheck(e, TRUE, len) \notin ReadEmptyErrors

(* A Read with a destination on an empty buffer changes nothing but the   *)
(* thread, which returns.                                                 *)
ReadEmptyChangesNothing ==
    \A t \in Threads, e \in Endpoints, len \in Lens :
        (is_empty(e) /\ Read(t, e, TRUE, len)) =>
            /\ UNCHANGED <<handles, other, signals, data, read_disabled, lock>>
            /\ Idle(t)'

(* C19: a Read with a destination on an empty inbound buffer returns      *)
(* PEER_CLOSED if the peer reference is null, otherwise BAD_STATE if      *)
(* read_disabled is latched, otherwise SHOULD_WAIT, and changes no state; *)
(* a Read on a non-empty buffer returns none of the three.                *)
C19_ReadEmptyErrors ==
    /\ [](\A e \in Endpoints : ReadErrors(e, Lens))
    /\ [][ReadEmptyChangesNothing]_vars

(* C19, amended: the same, for the lengths that fit in 32 bits; with a    *)
(* longer length the Read returns INVALID_ARGS, whatever the buffer.      *)
C19_ReadEmptyErrorsAmended ==
    /\ [](\A e \in Endpoints :
              /\ ReadErrors(e, Lens \ {TooLong})
              /\ ReadCheck(e, TRUE, TooLong) = "INVALID_ARGS")
    /\ [][ReadEmptyChangesNothing]_vars

(* An empty endpoint with the latch set and its peer alive, whose peer is *)
(* not empty and has its latch set as well.                               *)
C19_Witness ==
    \E e \in Endpoints :
        /\ Linked /\ Quiescent
        /\ is_empty(e) /\ read_disabled[e]
        /\ ~is_empty(Peer(e)) /\ read_disabled[Peer(e)]

(* Create has returned status and no operation has been called since. *)
Created(status) ==
    \A t \in Threads : Idle(t) /\ th[t].ret = Result("Create", 0, status, 0, <<>>)

(* No endpoint exists. *)
NothingCreated == \A e \in Endpoints : ~handles[e] /\ ~other[e] /\ signals[e] = {}

(* Two linked endpoints in their initial state. *)
PairCreated ==
    \A e \in Endpoints :
        /\ handles[e] /\ other[e]
        /\ is_empty(e) /\ control_msg[e] = <<>> /\ accept_queue[e] = NoHandle
        /\ ~read_disabled[e]
        /\ WRITABLE \in signals[e]
        /\ CONTROL_WRITABLE \in signals[e] <=> HAS_CONTROL \in flags
        /\ SHARE \in signals[e] <=> HAS_ACCEPT \in flags
        /\ signals[e] \subseteq {WRITABLE, CONTROL_WRITABLE, SHARE}

(* C20: Create(flags) returns INVALID_ARGS and creates nothing when flags *)
(* has a bit outside DATAGRAM, HAS_CONTROL, HAS_ACCEPT; otherwise it      *)
(* returns two linked endpoints with these flags, empty buffers and       *)
(* slots, read_disabled false, and the signals WRITABLE, CONTROL_WRITABLE *)
(* iff HAS_CONTROL, SHARE iff HAS_ACCEPT.                                 *)
C20_Create ==
    (\E status \in {"OK", "INVALID_ARGS", "NO_MEMORY"} : Created(status)) =>
        IF flags \ {DATAGRAM, HAS_CONTROL, HAS_ACCEPT} # {}
        THEN Created("INVALID_ARGS") /\ NothingCreated
        ELSE Created("OK") /\ PairCreated

(* C20, amended: with valid flags Create returns the two endpoints, or    *)
(* NO_MEMORY and nothing when an allocation fails.                        *)
C20_CreateAmended ==
    (\E status \in {"OK", "INVALID_ARGS", "NO_MEMORY"} : Created(status)) =>
        IF flags \ {DATAGRAM, HAS_CONTROL, HAS_ACCEPT} # {}
        THEN Created("INVALID_ARGS") /\ NothingCreated
        ELSE \/ Created("OK") /\ PairCreated
             \/ Created("NO_MEMORY") /\ NothingCreated

(* A pair created with all three flags. *)
C20_Witness ==
    /\ Created("OK")
    /\ flags = {DATAGRAM, HAS_CONTROL, HAS_ACCEPT}
    /\ \A e \in Endpoints : signals[e] = {WRITABLE, CONTROL_WRITABLE, SHARE}

(***************************************************************************)
(* Properties of the accept queue.                                         *)
(***************************************************************************)
(* C7: with HAS_ACCEPT and both endpoints linked, whenever no Share or    *)
(* Accept call is in progress, SHARE is set on an endpoint if and only if *)
(* the accept slot of its peer is empty.                                  *)
C7_ShareIffPeerSlotEmpty ==
    (HAS_ACCEPT \in flags /\ Linked /\ Quiescent) =>
        \A e \in Endpoints : Has(e, SHARE) <=> accept_queue[Peer(e)] = NoHandle

(* C8: with HAS_ACCEPT, in every reachable state ACCEPT is set on an      *)
(* endpoint if and only if its accept slot holds a handle.                *)
C8_AcceptIffSlotOccupied ==
    HAS_ACCEPT \in flags =>
        \A e \in Endpoints : Has(e, ACCEPT) <=> accept_queue[e] # NoHandle

(* An occupied slot on an endpoint whose peer was closed, next to a slot  *)
(* an Accept has emptied again while its own Share was still under way.   *)
C8_Witness ==
    \E e \in Endpoints :
        /\ HAS_ACCEPT \in flags
        /\ accept_queue[e] # NoHandle /\ Has(e, ACCEPT) /\ Has(e, PEER_CLOSED)
        /\ accept_queue[Peer(e)] = NoHandle /\ ~Has(Peer(e), ACCEPT)
        /\ ~Has(e, SHARE)

(* h's target is an endpoint with HAS_ACCEPT, is e itself, or is e's peer. *)
NotShareable(e, h) ==
    \/ h = "sharable"
    \/ h \in {"this0", "this1"} /\ HAS_ACCEPT \in flags
    \/ h = This(e)
    \/ other[e] /\ h = This(Peer(e))

(* A step that puts h into an empty accept slot. *)
Installs(h) ==
    \E e \in Endpoints : accept_queue[e] = NoHandle /\ accept_queue'[e] = h

(* On a pair with HAS_ACCEPT: a Share of a handle that may not be shared  *)
(* returns BAD_STATE, no step installs such a handle, and a ShareSelf of  *)
(* a handle from another pair without HAS_ACCEPT on an empty slot returns *)
(* OK.                                                                    *)
ShareRejects ==
    HAS_ACCEPT \in flags =>
        /\ \A t \in Threads, e \in Endpoints, h \in Handles :
               (Share(t, e, h) /\ NotShareable(e, h)) =>
                   th'[t].ret = Result("Share", e, "BAD_STATE", 0, <<>>)
        /\ \A h \in Handles \ {"plain"} : ~Installs(h)
        /\ \A t \in Threads :
               (ShareSelf(t) /\ th[t].arg.h = "plain"
                    /\ accept_queue[th[t].self] = NoHandle) =>
                   th'[t].ret = Result("Share", Peer(th[t].self), "OK", 0, <<>>)

(* C23: E.Share(h) returns BAD_STATE and installs nothing in any accept   *)
(* slot when h's target is an endpoint with HAS_ACCEPT, is E itself or is *)
(* E's peer; for a target without HAS_ACCEPT from another pair it returns *)
(* OK when the peer's accept slot is empty.                               *)
C23_ShareRejects == [][ShareRejects]_vars

(* CheckShareable on e returns BAD_STATE for the targets that may not be  *)
(* shared and OK for the others, and changes nothing.                     *)
CheckShareableRejects ==
    \A t \in Threads, e \in Endpoints, h \in Handles :
        CheckShareable(t, e, h) =>
            /\ th'[t].ret =
                   Result("CheckShareable", e,
                          IF NotShareable(e, h) THEN "BAD_STATE" ELSE "OK", 0, <<h>>)
            /\ UNCHANGED <<handles, other, signals, data, read_disabled, control_msg,
                           accept_queue, lock>>

(* Share makes no check of its own: it never returns BAD_STATE, and       *)
(* ShareSelf on an empty slot installs the handle it is given, whatever   *)
(* its target, and returns OK.                                            *)
ShareChecksNothing ==
    \A t \in Threads :
        /\ (th'[t].ret # th[t].ret /\ th'[t].ret.op = "Share") =>
               th'[t].ret.status # "BAD_STATE"
        /\ (ShareSelf(t) /\ accept_queue[th[t].self] = NoHandle) =>
               /\ accept_queue'[th[t].self] = th[t].arg.h
               /\ th'[t].ret = Result("Share", Peer(th[t].self), "OK", 0, <<>>)

(* C23, amended: it is CheckShareable(h's target) on E that returns       *)
(* BAD_STATE when the target is an endpoint with HAS_ACCEPT, is E itself  *)
(* or is E's peer, and OK for a target without HAS_ACCEPT from another    *)
(* pair; Share never returns BAD_STATE, and installs the handle it is     *)
(* given and returns OK when the peer's accept slot is empty.             *)
C23_ShareRejectsAmended ==
    [][CheckShareableRejects /\ ShareChecksNothing]_vars

(* CheckShareable has refused endpoint 0's own handle and a Share has     *)
(* installed a handle from another pair in the peer's slot.               *)
C23_Witness ==
    \E t, u \in Threads :
        /\ t # u /\ Quiescent /\ Linked
        /\ th[t].ret = Result("CheckShareable", 0, "BAD_STATE", 0, <<"this0">>)
        /\ th[u].ret = Result("Share", 0, "OK", 0, <<>>)
        /\ accept_queue[1] = "plain"

(* What a caller does before Share: it goes on to Share exactly when the *)
(* target may be shared, and changes nothing.                             *)
CheckedShareRejects ==
    \A t \in Threads, e \in Endpoints, h \in Handles :
        CheckedShare(t, e, h) =>
            /\ IF NotShareable(e, h)
               THEN th'[t].ret = Result("CheckShareable", e, "BAD_STATE", 0, <<h>>)
                    /\ Idle(t)'
               ELSE th'[t].pc = "Share" /\ th'[t].self = e /\ th'[t].arg.h = h
            /\ UNCHANGED <<handles, other, signals, data, read_disabled, control_msg,
                           accept_queue, lock>>

(* No accept slot holds a handle whose target has HAS_ACCEPT or is an     *)
(* endpoint of this pair.                                                 *)
NoCycle ==
    \A e \in Endpoints :
        accept_queue[e] # NoHandle =>
            /\ accept_queue[e] # "sharable"
            /\ accept_queue[e] \notin {"this0", "this1"}

(* C24: CheckShareable(t) on E returns BAD_STATE iff t has HAS_ACCEPT, t  *)
(* is E, or t is E's current peer, and OK otherwise, changing no state;   *)
(* and when every Share(h) follows a CheckShareable(h's target) that      *)
(* returned OK, no accept slot ever holds a handle whose target has       *)
(* HAS_ACCEPT or is either endpoint of the sharing pair, also when        *)
(* on_zero_handles of either endpoint runs between CheckShareable and    *)
(* the Share.                                                             *)
C24_CyclePrevention ==
    /\ []NoCycle
    /\ [][CheckShareableRejects /\ CheckedShareRejects]_vars

(* A caller has made its check on an endpoint, the last handle of that    *)
(* endpoint was closed before its Share, and the endpoint's slot holds a  *)
(* handle its peer shared.                                                *)
C24_Witness ==
    \E t \in Threads :
        /\ th[t].pc = "Share" /\ th[t].arg.h = "plain"
        /\ ~handles[th[t].self] /\ ~other[th[t].self]
        /\ accept_queue[th[t].self] = "plain"
        /\ HAS_ACCEPT \in flags

(* A step of Share on e: NOT_SUPPORTED without HAS_ACCEPT, else           *)
(* PEER_CLOSED without a peer, else on to the peer's slot with the        *)
(* handle; nothing but the thread changes.                                *)
ShareChecksOnly ==
    \A t \in Threads, e \in Endpoints, h \in Handles :
        Share(t, e, h) =>
            /\ UNCHANGED <<handles, other, signals, data, read_disabled, control_msg,
                           accept_queue, lock>>
            /\ IF HAS_ACCEPT \notin flags
               THEN th'[t].ret = Result("Share", e, "NOT_SUPPORTED", 0, <<>>) /\ Idle(t)'
               ELSE IF ~other[e]
               THEN th'[t].ret = Result("Share", e, "PEER_CLOSED", 0, <<>>) /\ Idle(t)'
               ELSE th'[t].pc = "ShareSelf" /\ th'[t].self = Peer(e) /\ th'[t].arg.h = h

(* ShareSelf on an occupied slot returns SHOULD_WAIT and changes nothing. *)
ShareSelfWaits ==
    \A t \in Threads :
        (ShareSelf(t) /\ accept_queue[th[t].self] # NoHandle) =>
            /\ th'[t].ret = Result("Share", Peer(th[t].self), "SHOULD_WAIT", 0, <<>>)
            /\ Idle(t)'
            /\ UNCHANGED <<handles, other, signals, data, read_disabled, control_msg,
                           accept_queue, lock>>

(* A step of Accept on e: NOT_SUPPORTED without HAS_ACCEPT, else          *)
(* SHOULD_WAIT on an empty slot, both without a change; else it returns   *)
(* the stored handle, empties the slot, clears ACCEPT on e, and goes on   *)
(* to the peer's signals if e has a peer.                                 *)
AcceptDrains ==
    \A t \in Threads, e \in Endpoints :
        Accept(t, e) =>
            IF HAS_ACCEPT \notin flags
            THEN /\ th'[t].ret = Result("Accept", e, "NOT_SUPPORTED", 0, <<>>)
                 /\ UNCHANGED <<accept_queue, signals, lock>>
            ELSE IF accept_queue[e] = NoHandle
            THEN /\ th'[t].ret = Result("Accept", e, "SHOULD_WAIT", 0, <<>>)
                 /\ UNCHANGED <<accept_queue, signals, lock>>
            ELSE /\ th'[t].ret = Result("Accept", e, "OK", 0, <<accept_queue[e]>>)
                 /\ accept_queue'[e] = NoHandle
                 /\ accept_queue'[Peer(e)] = accept_queue[Peer(e)]
                 /\ signals'[e] = signals[e] \ {ACCEPT}
                 /\ signals'[Peer(e)] = signals[Peer(e)]
                 /\ IF other[e] THEN th'[t].pc = "AcceptPeer" ELSE Idle(t)'

(* The second step of an Accept on e, taken with e's lock held: SHARE is  *)
(* set on the peer, and the Accept returns.                               *)
AcceptSetsShare ==
    \A t \in Threads :
        AcceptPeer(t) =>
            /\ signals'[Peer(th[t].self)] = signals[Peer(th[t].self)] \cup {SHARE}
            /\ signals'[th[t].self] = signals[th[t].self]
            /\ th'[t].ret = th[t].ret /\ Idle(t)'
            /\ UNCHANGED accept_queue

(* C25: Share and Accept return NOT_SUPPORTED on an endpoint without      *)
(* HAS_ACCEPT; Share returns PEER_CLOSED when the peer is null and        *)
(* SHOULD_WAIT, leaving the slot untouched, when the peer's accept slot   *)
(* is occupied; Accept returns SHOULD_WAIT on an empty slot and otherwise *)
(* returns the stored handle, empties the slot, clears ACCEPT locally and *)
(* sets SHARE on the peer if it still exists.                             *)
C25_ShareAcceptErrors ==
    [][ShareChecksOnly /\ ShareSelfWaits /\ AcceptDrains /\ AcceptSetsShare]_vars

(* An Accept has returned the stored handle and set SHARE on the peer     *)
(* again, after a Share of another thread had found the slot occupied.    *)
C25_Witness ==
    \E e \in Endpoints, t, u \in Threads :
        /\ t # u /\ Quiescent /\ Linked
        /\ th[t].ret = Result("Accept", e, "OK", 0, <<"plain">>)
        /\ th[u].ret = Result("Share", Peer(e), "SHOULD_WAIT", 0, <<>>)
        /\ accept_queue[e] = NoHandle /\ ~Has(e, ACCEPT) /\ Has(Peer(e), SHARE)

(***************************************************************************)
(* Properties of the control channel.                                      *)
(***************************************************************************)
(* C9: with HAS_CONTROL, in every reachable state CONTROL_READABLE is set *)
(* on an endpoint if and only if its control slot is occupied.            *)
C9_ControlReadableIffOccupied ==
    HAS_CONTROL \in flags =>
        \A e \in Endpoints : Has(e, CONTROL_READABLE) <=> control_msg[e] # <<>>

(* An occupied slot on an endpoint whose peer was closed, next to an      *)
(* empty one.                                                             *)
C9_Witness ==
    \E e \in Endpoints :
        /\ HAS_CONTROL \in flags
        /\ control_msg[e] # <<>> /\ Has(e, CONTROL_READABLE) /\ Has(e, PEER_CLOSED)
        /\ control_msg[Peer(e)] = <<>> /\ ~Has(Peer(e), CONTROL_READABLE)
        /\ Has(e, CONTROL_WRITABLE)

(* C10: with HAS_CONTROL, in every reachable state in which an endpoint's *)
(* peer reference is non-null, CONTROL_WRITABLE is set on it if and only  *)
(* if the peer's control slot is empty.                                   *)
C10_ControlWritableIffPeerSlotEmpty ==
    HAS_CONTROL \in flags =>
        \A e \in Endpoints :
            other[e] => (Has(e, CONTROL_WRITABLE) <=> control_msg[Peer(e)] = <<>>)

(* C10, amended: the same, in the states where no operation is in         *)
(* progress.                                                              *)
C10_ControlWritableAmended ==
    (HAS_CONTROL \in flags /\ Quiescent) =>
        \A e \in Endpoints :
            other[e] => (Has(e, CONTROL_WRITABLE) <=> control_msg[Peer(e)] = <<>>)

(* One direction with a stored message and CONTROL_WRITABLE cleared, the  *)
(* other with an empty slot and CONTROL_WRITABLE set.                     *)
C10_Witness ==
    \E e \in Endpoints :
        /\ HAS_CONTROL \in flags /\ Quiescent /\ Linked
        /\ control_msg[Peer(e)] # <<>> /\ ~Has(e, CONTROL_WRITABLE)
        /\ control_msg[e] = <<>> /\ Has(Peer(e), CONTROL_WRITABLE)

(* The checks of WriteControl, in their order: a step of WriteControl on  *)
(* e changes nothing but the thread, and returns BAD_STATE without        *)
(* HAS_CONTROL, else INVALID_ARGS for len = 0, else OUT_OF_RANGE for a    *)
(* len above the maximum, else PEER_CLOSED without a peer; only then does *)
(* it go on to the peer's slot with its len bytes.                        *)
WriteControlChecksOnly ==
    \A t \in Threads, e \in Endpoints, len \in CtlLens, ok \in BOOLEAN :
        WriteControl(t, e, len, ok) =>
            /\ UNCHANGED <<handles, other, signals, data, read_disabled, control_msg,
                           accept_queue, lock>>
            /\ IF HAS_CONTROL \notin flags
               THEN th'[t].ret = Result("WriteControl", e, "BAD_STATE", 0, <<>>)
               ELSE IF len = 0
               THEN th'[t].ret = Result("WriteControl", e, "INVALID_ARGS", 0, <<>>)
               ELSE IF len > kControlMsgSize
               THEN th'[t].ret = Result("WriteControl", e, "OUT_OF_RANGE", 0, <<>>)
               ELSE IF ~other[e]
               THEN th'[t].ret = Result("WriteControl", e, "PEER_CLOSED", 0, <<>>)
               ELSE /\ th'[t].pc = "WriteControlSelf" /\ th'[t].self = Peer(e)
                    /\ Len(th'[t].arg.src) = len
            /\ th'[t].pc # "WriteControlSelf" => Idle(t)'

(* WriteControlSelf on an occupied slot returns SHOULD_WAIT and changes   *)
(* nothing; when it returns OK the slot was empty and now holds the       *)
(* caller's message.                                                      *)
WriteControlSelfWaits ==
    \A t \in Threads :
        WriteControlSelf(t) =>
            LET e == th[t].self IN
            /\ control_msg[e] # <<>> =>
                   /\ th'[t].ret = Result("WriteControl", Peer(e), "SHOULD_WAIT", 0, <<>>)
                   /\ Idle(t)'
                   /\ UNCHANGED <<handles, other, signals, data, read_disabled,
                                  control_msg, accept_queue, lock>>
            /\ th'[t].ret.status = "OK" =>
                   /\ control_msg[e] = <<>>
                   /\ control_msg'[e] = th[t].arg.src /\ th[t].arg.src # <<>>
            /\ th'[t].ret.status # "OK" => UNCHANGED control_msg

(* A stored message stays as it is until a ReadControl on its endpoint    *)
(* returns OK and empties the slot; an empty slot is filled by the        *)
(* WriteControlSelf of one thread only.                                   *)
ControlSlotKept ==
    \A e \in Endpoints :
        /\ control_msg[e] # <<>> =>
               \/ control_msg'[e] = control_msg[e]
               \/ /\ control_msg'[e] = <<>>
                  /\ \E t \in Threads :
                         /\ Idle(t)
                         /\ th'[t].ret.op = "ReadControl" /\ th'[t].ret.ep = e
                         /\ th'[t].ret.status = "OK"
        /\ (control_msg[e] = <<>> /\ control_msg'[e] # <<>>) =>
               \E t \in Threads :
                   /\ th[t].pc = "WriteControlSelf" /\ th[t].self = e
                   /\ th'[t].ret = Result("WriteControl", Peer(e), "OK", 0, <<>>)
                   /\ \A u \in Threads \ {t} : th'[u] = th[u]

(* C21: WriteControl on E fails, in this order and without changing       *)
(* state, with BAD_STATE if E lacks HAS_CONTROL, INVALID_ARGS if len = 0, *)
(* OUT_OF_RANGE if len is above the maximum, PEER_CLOSED if the peer is   *)
(* null, SHOULD_WAIT if the peer's control slot is occupied; a stored     *)
(* message is never overwritten before a ReadControl drains it, and a     *)
(* WriteControl returns OK only by filling an empty slot, so that at most *)
(* one of the calls between two drains returns OK.                        *)
C21_WriteControlErrors ==
    [][WriteControlChecksOnly /\ WriteControlSelfWaits /\ ControlSlotKept]_vars

(* Two concurrent WriteControl calls on the same endpoint have returned,  *)
(* one OK and one SHOULD_WAIT, and the slot holds the message of the      *)
(* first.                                                                 *)
C21_Witness ==
    \E e \in Endpoints, t, u \in Threads :
        /\ t # u /\ Quiescent
        /\ th[t].ret = Result("WriteControl", e, "OK", 0, <<>>)
        /\ th[u].ret = Result("WriteControl", e, "SHOULD_WAIT", 0, <<>>)
        /\ control_msg[Peer(e)] = <<0, 1>>

(* What a ReadControl on e does, for the callers whose destination is     *)
(* valid as oks tells: BAD_STATE without HAS_CONTROL; SHOULD_WAIT on an   *)
(* empty slot; on a slot holding m bytes, with or without a peer, OK with *)
(* the first min(m, len) bytes, and the slot is left empty.  The failures *)
(* change nothing.                                                        *)
ReadControlDrains(oks) ==
    \A t \in Threads, e \in Endpoints, len \in CtlLens, ok \in oks :
        ReadControl(t, e, len, ok) =>
            LET msg == control_msg[e]
                n == IF Len(msg) < len THEN Len(msg) ELSE len IN
            IF HAS_CONTROL \notin flags
            THEN /\ th'[t].ret = Result("ReadControl", e, "BAD_STATE", 0, <<>>)
                 /\ UNCHANGED <<control_msg, signals, lock>>
            ELSE IF msg = <<>>
            THEN /\ th'[t].ret = Result("ReadControl", e, "SHOULD_WAIT", 0, <<>>)
                 /\ UNCHANGED <<control_msg, signals, lock>>
            ELSE /\ th'[t].ret = Result("ReadControl", e, "OK", n, SubSeq(msg, 1, n))
                 /\ control_msg'[e] = <<>>
                 /\ control_msg'[Peer(e)] = control_msg[Peer(e)]

(* A ReadControl with an invalid destination on an occupied slot returns  *)
(* INVALID_ARGS and leaves the message in the slot.                       *)
ReadControlBadBuffer ==
    \A t \in Threads, e \in Endpoints, len \in CtlLens :
        (ReadControl(t, e, len, FALSE) /\ HAS_CONTROL \in flags
             /\ control_msg[e] # <<>>) =>
            /\ th'[t].ret = Result("ReadControl", e, "INVALID_ARGS", 0, <<>>)
            /\ UNCHANGED <<control_msg, signals, lock>>

(* C22: ReadControl on an occupied slot of m bytes with caller length len *)
(* returns the first min(m, len) bytes of the stored message and always   *)
(* leaves the slot empty, so that the next ReadControl returns            *)
(* SHOULD_WAIT; it returns BAD_STATE without HAS_CONTROL and SHOULD_WAIT  *)
(* on an empty slot, and succeeds on an occupied slot even when the peer  *)
(* is closed.                                                             *)
C22_ReadControlDrains == [][ReadControlDrains(BOOLEAN)]_vars

(* C22, amended: the same, for a ReadControl whose destination buffer is  *)
(* valid; with an invalid destination a ReadControl on an occupied slot   *)
(* returns INVALID_ARGS and the message stays in the slot.                *)
C22_ReadControlDrainsAmended ==
    [][ReadControlDrains({TRUE}) /\ ReadControlBadBuffer]_vars

(* A ReadControl of one byte has returned the first byte of a message of  *)
(* two on an endpoint whose peer is closed, and the slot is empty.        *)
C22_Witness ==
    \E e \in Endpoints, t \in Threads :
        /\ Quiescent /\ handles[e] /\ ~other[e]
        /\ th[t].ret = Result("ReadControl", e, "OK", 1, <<1>>)
        /\ control_msg[e] = <<>>

DataBits == {READABLE, WRITABLE, READ_DISABLED, WRITE_DISABLED}

ControlBits == {CONTROL_READABLE, CONTROL_WRITABLE}

(* A step of WriteControl or ReadControl, and a step of Write, Read or    *)
(* Shutdown.                                                              *)
ControlStep ==
    \/ DoWriteControl \/ DoWriteControlSelf \/ DoWriteControlSelfPeer
    \/ DoReadControl \/ DoReadControlPeer

DataStep ==
    \/ DoWrite \/ DoWriteSelf \/ DoWriteSelfPeer
    \/ DoRead \/ DoReadPeer
    \/ DoShutdown \/ DoShutdownOther

(* A control step leaves the data signals, the latches and the inbound    *)
(* buffers alone; a data step leaves the control signals and the control  *)
(* slots alone.                                                           *)
Orthogonal ==
    /\ ControlStep =>
           /\ \A e \in Endpoints : signals'[e] \cap DataBits = signals[e] \cap DataBits
           /\ UNCHANGED <<read_disabled, data>>
    /\ DataStep =>
           /\ \A e \in Endpoints :
                  signals'[e] \cap ControlBits = signals[e] \cap ControlBits
           /\ UNCHANGED control_msg

(* C27: WriteControl and ReadControl never change READABLE, WRITABLE,     *)
(* READ_DISABLED, WRITE_DISABLED, read_disabled or the inbound buffer of  *)
(* either endpoint, and Write, Read and Shutdown never change             *)
(* CONTROL_READABLE, CONTROL_WRITABLE or the control slot of either       *)
(* endpoint.                                                              *)
C27_ControlOrthogonal == [][Orthogonal]_vars

(* A stored control message next to buffered bytes on endpoint 1, whose   *)
(* read side is shut down, while endpoint 0 has lost CONTROL_WRITABLE and *)
(* is write-disabled.                                                     *)
C27_Witness ==
    /\ Quiescent
    /\ control_msg[1] # <<>> /\ ~is_empty(1) /\ read_disabled[1]
    /\ signals[1] = {WRITABLE, READABLE, CONTROL_WRITABLE, CONTROL_READABLE}
    /\ signals[0] = {WRITE_DISABLED}

(***************************************************************************)
(* Properties of the user signals.                                         *)
(***************************************************************************)
UserBits == {USER_SIGNAL_0, USER_SIGNAL_1}

(* A step changes the signals of e by the masks and nothing else of e's   *)
(* signals, and leaves the signals of e's peer alone.                     *)
SignalsChangeBy(e, clear_mask, set_mask) ==
    /\ signals'[e] = (signals[e] \ clear_mask) \cup set_mask
    /\ signals'[e] \ UserBits = signals[e] \ UserBits
    /\ signals'[Peer(e)] = signals[Peer(e)]

(* A step of user_signal on e: INVALID_ARGS and no change for a mask with *)
(* a bit that is not a user signal; else the masks applied to e when peer *)
(* is false; else PEER_CLOSED and no change without a peer; else on to    *)
(* the peer.  Nothing but signals changes.                                *)
UserSignalStep ==
    \A t \in Threads, e \in Endpoints, clear_mask \in KeptMasks,
       set_mask \in KeptMasks, peer \in BOOLEAN :
        user_signal(t, e, clear_mask, set_mask, peer) =>
            /\ UNCHANGED <<handles, other, data, read_disabled, control_msg,
                           accept_queue, lock>>
            /\ IF ~(clear_mask \subseteq UserBits /\ set_mask \subseteq UserBits)
               THEN /\ th'[t].ret = Result("user_signal", e, "INVALID_ARGS", 0, <<>>)
                    /\ Idle(t)' /\ UNCHANGED signals
               ELSE IF ~peer
               THEN /\ th'[t].ret = Result("user_signal", e, "OK", 0, <<>>)
                    /\ Idle(t)' /\ SignalsChangeBy(e, clear_mask, set_mask)
               ELSE IF ~other[e]
               THEN /\ th'[t].ret = Result("user_signal", e, "PEER_CLOSED", 0, <<>>)
                    /\ Idle(t)' /\ UNCHANGED signals
               ELSE /\ th'[t].pc = "UserSignalSelf" /\ th'[t].self = Peer(e)
                    /\ th'[t].arg = [clear |-> clear_mask, set |-> set_mask]
                    /\ UNCHANGED signals

(* The second step of user_signal with peer true applies the masks to the *)
(* peer and returns OK.                                                   *)
UserSignalSelfStep ==
    \A t \in Threads :
        UserSignalSelf(t) =>
            /\ UNCHANGED <<handles, other, data, read_disabled, control_msg,
                           accept_queue, lock>>
            /\ th'[t].ret = Result("user_signal", Peer(th[t].self), "OK", 0, <<>>)
            /\ SignalsChangeBy(th[t].self, th[t].arg.clear, th[t].arg.set)

(* C26: user_signal(clear_mask, set_mask, peer) returns INVALID_ARGS and  *)
(* changes nothing when either mask has a bit outside the user signals;   *)
(* otherwise it changes only user-signal bits, on the local endpoint when *)
(* peer is false and on the peer endpoint when peer is true, returning    *)
(* PEER_CLOSED and changing nothing when peer is true and the peer        *)
(* reference is null; it never alters any other signal bit, the buffers   *)
(* or the slots of either endpoint.                                       *)
C26_UserSignalFrame == [][UserSignalStep /\ UserSignalSelfStep]_vars

(* A user_signal with peer true has set a user bit on endpoint 1 next to  *)
(* its WRITABLE, another one was refused for a mask with READABLE, and    *)
(* endpoint 0 carries a user bit of its own.                              *)
C26_Witness ==
    \E t, u \in Threads :
        /\ t # u /\ Quiescent /\ Linked
        /\ th[t].ret = Result("user_signal", 0, "OK", 0, <<>>)
        /\ th[u].ret = Result("user_signal", 0, "INVALID_ARGS", 0, <<>>)
        /\ signals[1] = {WRITABLE, USER_SIGNAL_0}
        /\ signals[0] = {WRITABLE, USER_SIGNAL_1}

(***************************************************************************)
(* Properties of the byte stream.                                          *)
(***************************************************************************)
(* What a step does to the inbound buffer of endpoint 1 and to the results *)
(* the callers hold: a step that appends bytes is the WriteSelf of a       *)
(* thread, appends a prefix of that thread's bytes and reports its length  *)
(* as nwritten; a step that removes bytes is the Read of a thread, removes *)
(* them from the head and returns exactly them; a step that leaves the     *)
(* buffer alone reports no byte as written or read.                        *)
StreamStep ==
    LET old == data[1]
        new == data'[1] IN
    /\ data'[0] = data[0]
    /\ Len(new) = Len(old) =>
           /\ new = old
           /\ \A t \in Threads :
                  th'[t].ret # th[t].ret =>
                      /\ th'[t].ret.op = "Write" => th'[t].ret.n = 0
                      /\ th'[t].ret.op = "Read" => th'[t].ret.out = <<>>
    /\ Len(new) > Len(old) =>
           \E t \in Threads :
               LET n == Len(new) - Len(old) IN
               /\ th[t].pc = "WriteSelf"
               /\ n <= Len(th[t].arg.src)
               /\ new = old \o Prefix(th[t].arg.src, n)
               /\ th'[t].ret = Result("Write", 0, "OK", n, <<>>)
    /\ Len(new) < Len(old) =>
           \E t \in Threads :
               LET n == Len(old) - Len(new) IN
               /\ Idle(t)
               /\ new = Drop(old, n)
               /\ th'[t].ret = Result("Read", 1, "OK", n, Prefix(old, n))

(* C12: on a stream pair the bytes endpoint 1's Reads return, in order,   *)
(* followed by the bytes still in its inbound buffer, are the bytes       *)
(* endpoint 0's Writes accepted, in order: every Write appends the prefix *)
(* it accepted at the tail and every Read returns and removes bytes at    *)
(* the head, so no byte is lost, duplicated or reordered.                 *)
C12_StreamRoundTrip == [][StreamStep]_vars

(* A Write that accepted one byte of two has filled the buffer, which     *)
(* holds both byte values, after a Read that returned two different bytes. *)
C12_Witness ==
    \E r \in Readers, w \in Writers :
        /\ th[r].ret = Result("Read", 1, "OK", 2, <<0, 1>>)
        /\ th[w].ret = Result("Write", 0, "OK", 1, <<>>)
        /\ Len(data[1]) = BufMax
        /\ \E i, j \in 1..BufMax : data[1][i] # data[1][j]

(***************************************************************************)
(* Properties of the datagram queue.                                       *)
(***************************************************************************)
(* A step that leaves the queue of e alone and reports a successful Write. *)
WriteLeavesQueue(e) ==
    /\ data'[e] = data[e]
    /\ \E t \in Threads :
           /\ th'[t].ret # th[t].ret
           /\ th'[t].ret.op = "Write" /\ th'[t].ret.ep = Peer(e)
           /\ th'[t].ret.status = "OK"

(* What a step does to the queue of e apart from that: a step that adds a  *)
(* frame is the WriteSelf of a thread and adds that thread's whole frame   *)
(* at the tail; a step that removes a frame is the Read of a thread,       *)
(* removes the oldest frame and returns a prefix of it; a step that leaves *)
(* the queue alone returns no byte read; no step does anything else.       *)
DatagramStep(e) ==
    LET old == data[e]
        new == data'[e] IN
    /\ Len(new) \in {Len(old) - 1, Len(old), Len(old) + 1}
    /\ Len(new) = Len(old) =>
           /\ new = old
           /\ \A t \in Threads :
                  (th'[t].ret # th[t].ret /\ th'[t].ret.op = "Read"
                       /\ th'[t].ret.ep = e /\ th'[t].ret.status = "OK") =>
                      (th'[t].ret.out = <<>> /\ th'[t].ret.n = Size(old))
    /\ Len(new) = Len(old) + 1 =>
           \E t \in Threads :
               /\ th[t].pc = "WriteSelf" /\ th[t].self = e
               /\ new = Append(old, th[t].arg.src)
               /\ th'[t].ret = Result("Write", Peer(e), "OK", Len(th[t].arg.src), <<>>)
    /\ Len(new) = Len(old) - 1 =>
           \E t \in Threads :
               /\ Idle(t)
               /\ new = Tail(old)
               /\ th'[t].ret.op = "Read" /\ th'[t].ret.ep = e
               /\ th'[t].ret.status = "OK"
               /\ th'[t].ret.n <= Len(Head(old))
               /\ th'[t].ret.out = Prefix(Head(old), th'[t].ret.n)

InCriticalSection(t, e) ==
    \/ \E how \in Hows : Shutdown(t, e, how)
    \/ \E dst \in BOOLEAN, len \in Lens : Read(t, e, dst, len)
    \/ \E len \in CtlLens, ok \in BOOLEAN : ReadControl(t, e, len, ok)
    \/ Accept(t, e)
    \/ /\ th[t].self = e
       /\ \/ WriteSelf(t) \/ ShutdownOther(t) \/ OnPeerZeroHandles(t)
          \/ WriteControlSelf(t) \/ ShareSelf(t)

(* A step that changes the signals of e is taken by a thread inside a     *)
(* critical section on lock_ of e.                                        *)
SignalsUnderOwnLock ==
    \A e \in Endpoints :
        signals'[e] # signals[e] => \E t \in Threads : InCriticalSection(t, e)

(* C28: every change to an endpoint's signal bits is made while that same *)
(* endpoint's lock is held, the updates an operation applies to the       *)
(* opposite endpoint's signals (WRITABLE, CONTROL_WRITABLE, SHARE) and    *)
(* the updates of user_signal included.                                   *)
C28_SignalsUnderOwnLock == [][SignalsUnderOwnLock]_vars

(* The locks thread t holds. *)
Holds(t) == {e \in Endpoints : t \in lock[e]}

(* The next step of the operation thread t is in. *)
Continue(t) ==
    \/ WriteSelf(t) \/ WriteSelfPeer(t) \/ ReadPeer(t)
    \/ ShutdownOther(t) \/ OnPeerZeroHandles(t)
    \/ WriteControlSelf(t) \/ WriteControlSelfPeer(t) \/ ReadControlPeer(t)
    \/ ShareSelf(t) \/ ShareSelfPeer(t) \/ AcceptPeer(t)
    \/ UserSignalSelf(t) \/ CheckedShareShare(t)

ShutdownCompletes(e, how) ==
    \E t \in Threads :
        \/ /\ th[t].pc = "ShutdownOther"
           /\ th[t].self = Peer(e)
           /\ th[t].arg.how = how
           /\ ShutdownOther(t)
        \/ /\ Shutdown(t, e, how)
           /\ Idle(t)'

(* In the state a completed Shutdown(how) on e leaves, an identical *)
(* Shutdown(how) on e returns early.                                *)
RepeatReturnsEarly ==
    \A e \in Endpoints, how \in Hows \ {{}} :
        (ShutdownCompletes(e, how) /\ handles'[e]) =>
            ShutdownReturnsEarly(signals', e, how)

RepeatReturnsEarlyWhen ==
    \A e \in Endpoints, how \in Hows \ {{}} :
        (ShutdownCompletes(e, how) /\ handles'[e]) =>
            (ShutdownReturnsEarly(signals', e, how) <=>
                /\ SHUTDOWN_READ \in how => READ_DISABLED \in signals'[e]
                /\ HaveSignalsOf(signals', e) \subseteq WantSignals(how))

NextFlow ==
    \/ DoWrite0
    \/ DoWriteSelf
    \/ DoWriteSelfPeer
    \/ DoRead1
    \/ DoReadPeer
    \/ DoZeroHandles
    \/ DoOnPeerZeroHandles

SpecFlow == InitStream /\ [][NextFlow]_vars

(* What the WriteSelf of a thread does on a stream pair, f being the room *)
(* left in the inbound buffer it writes to: with f > 0 and a readable     *)
(* source it returns OK with nwritten = min(len, f) and appends exactly   *)
(* that prefix; it returns SHOULD_WAIT exactly when f = 0; and it goes on *)
(* to clear WRITABLE on the writer exactly when it returns OK, the buffer *)
(* is full after it and the writer is still linked.                       *)
FlowControlStep ==
    \A t \in Threads :
        (th[t].pc = "WriteSelf" /\ WriteSelf(t)) =>
            LET e == th[t].self
                src == th[t].arg.src
                f == BufMax - Len(data[e])
                n == Min(Len(src), f)
                r == th'[t].ret IN
            /\ Len(src) > 0
            /\ (f > 0 /\ th[t].arg.ok) =>
                   /\ r = Result("Write", Peer(e), "OK", n, <<>>)
                   /\ data'[e] = data[e] \o Prefix(src, n)
            /\ r.status = "SHOULD_WAIT" <=> f = 0
            /\ r.status # "OK" => data'[e] = data[e]
            /\ th'[t].pc = "WriteSelfPeer" <=>
                   (r.status = "OK" /\ Len(data'[e]) = BufMax /\ other[e])

(* A step that clears WRITABLE on an endpoint it leaves linked is the     *)
(* second step of                                                         *)
(* a WriteSelf that filled the peer's inbound buffer, and every such step *)
(* leaves WRITABLE clear on the writer.                                   *)
ClearsWritableStep ==
    /\ \A e \in Endpoints :
           (other'[e] /\ WRITABLE \in signals[e] /\ WRITABLE \notin signals'[e]) =>
               \E t \in Threads :
                   /\ th[t].pc = "WriteSelfPeer" /\ th[t].self = Peer(e)
                   /\ th[t].ret.status = "OK"
                   /\ Len(data[Peer(e)]) = BufMax
    /\ \A t \in Threads :
           (th[t].pc = "WriteSelfPeer" /\ WriteSelfPeer(t)) =>
               WRITABLE \notin signals'[Peer(th[t].self)]

FlowControl == FlowControlStep /\ ClearsWritableStep

NextQuery ==
    \/ DoWrite0
    \/ DoWriteSelf
    \/ DoWriteSelfPeer
    \/ DoRead1
    \/ DoReadPeer
    \/ DoShutdownWrite0
    \/ DoShutdownOther
    \/ DoZeroHandles
    \/ DoOnPeerZeroHandles

SpecQuery == InitHalfClose /\ [][NextQuery]_vars

(* A Read with no destination and len == 0 returns OK with the size of the *)
(* inbound buffer and changes no buffer, latch, signal, slot, reference or *)
(* lock of either endpoint.                                                *)
ReadQueryStep ==
    \A t \in Threads, e \in Endpoints :
        Read(t, e, FALSE, Len32(0)) =>
            /\ th'[t].ret = Result("Read", e, "OK", Size(data[e]), <<>>)
            /\ Idle(t)'
            /\ UNCHANGED <<data, read_disabled, signals, other, handles, control_msg,
                           accept_queue, lock>>

(* The query can be made by an idle thread on an open endpoint whose lock *)
(* is free, whatever the state of the buffer, the latch and the peer.     *)
ReadQueryEnabled ==
    \A t \in Threads, e \in Endpoints :
        (CanCall(t, e) /\ Free(e)) => ReadCheck(e, FALSE, Len32(0)) = "query"

(* C33: Read with an absent destination and len == 0 returns OK with      *)
(* nread equal to the current inbound size and changes no buffer, latch   *)
(* or signal of either endpoint, in every state, including an empty       *)
(* inbound buffer with the peer closed or with read_disabled latched.     *)
C33_ReadQuery == []ReadQueryEnabled /\ [][ReadQueryStep]_vars

(* The reader's query has returned OK with nread = 0 on an empty buffer   *)
(* whose latch is set and whose peer is closed, where a Read for bytes    *)
(* returns PEER_CLOSED.                                                   *)
C33_Witness ==
    \E r \in Readers :
        /\ Idle(r) /\ handles[1]
        /\ th[r].ret = Result("Read", 1, "OK", 0, <<>>)
        /\ is_empty(1) /\ read_disabled[1] /\ ~other[1]
        /\ Has(1, PEER_CLOSED) /\ Has(1, READ_DISABLED)
        /\ ReadCheck(1, TRUE, Len32(1)) = "PEER_CLOSED"

(***************************************************************************)
(* Properties of the teardown of a pair.                                   *)
(***************************************************************************)
(* No endpoint has both PEER_CLOSED and WRITABLE set. *)
PeerClosedNotWritable ==
    \A e \in Endpoints : Has(e, PEER_CLOSED) => ~Has(e, WRITABLE)

(* The step that sets PEER_CLOSED on an endpoint is OnPeerZeroHandles on *)
(* it, and leaves WRITABLE clear and the peer reference null.            *)
PeerClosedStep ==
    \A e \in Endpoints :
        (~Has(e, PEER_CLOSED) /\ PEER_CLOSED \in signals'[e]) =>
            /\ \E t \in Threads :
                   th[t].pc = "OnPeerZeroHandles" /\ th[t].self = e /\ OnPeerZeroHandles(t)
            /\ WRITABLE \notin signals'[e]
            /\ ~other'[e]

(* C34: in every reachable state PEER_CLOSED on an endpoint implies that  *)
(* WRITABLE is clear on it, whatever half-close preceded the close:       *)
(* OnPeerZeroHandles clears WRITABLE and sets PEER_CLOSED in one step,    *)
(* and no later operation on either endpoint, a Read by the closing       *)
(* endpoint that frees space in a full buffer included, sets WRITABLE     *)
(* again.                                                                 *)
C34_PeerClosedNotWritable == []PeerClosedNotWritable /\ [][PeerClosedStep]_vars

(* An endpoint that was half-closed has lost its peer: PEER_CLOSED is set *)
(* and WRITABLE clear, while the inbound buffer of the closed peer holds  *)
(* bytes and has room.                                                    *)
C34_Witness ==
    \E e \in Endpoints :
        /\ Quiescent /\ handles[e] /\ ~handles[Peer(e)] /\ ~other[e]
        /\ Has(e, PEER_CLOSED) /\ ~Has(e, WRITABLE)
        /\ read_disabled[e] /\ ~Has(e, WRITE_DISABLED)
        /\ ~is_empty(Peer(e)) /\ ~is_full(Peer(e))

(* on_zero_handles of e has completed: e has no handle and no thread is *)
(* on its way to OnPeerZeroHandles of e's peer.                         *)
ZeroHandlesDone(e) ==
    /\ ~handles[e]
    /\ \A t \in Threads : ~(th[t].pc = "OnPeerZeroHandles" /\ th[t].self = Peer(e))

(* Once on_zero_handles of either endpoint has completed, both peer *)
(* references are null.                                             *)
TornDown ==
    (\E e \in Endpoints : ZeroHandlesDone(e)) => \A e \in Endpoints : ~other[e]

(* A step that clears the peer reference of e is the critical section of *)
(* on_zero_handles of e or of OnPeerZeroHandles on e, taken while no     *)
(* other thread holds lock_ of e.                                        *)
ClearedUnderOwnLock ==
    \A e \in Endpoints :
        (other[e] /\ ~other'[e]) =>
            /\ Free(e)
            /\ \E t \in Threads :
                   \/ on_zero_handles(t, e)
                   \/ th[t].pc = "OnPeerZeroHandles" /\ th[t].self = e
                      /\ OnPeerZeroHandles(t)

(* C35: after on_zero_handles of either endpoint has completed, both      *)
(* endpoints' peer references are null, each reference having been        *)
(* cleared under its own endpoint's lock, when only one endpoint loses    *)
(* its handles and when both run on_zero_handles concurrently.            *)
C35_PairTeardown == []TornDown /\ [][ClearedUnderOwnLock]_vars

(* Both endpoints have run on_zero_handles concurrently: each moved its  *)
(* own reference out and then ran OnPeerZeroHandles on the other, so     *)
(* both have PEER_CLOSED.                                                *)
C35_Witness ==
    /\ Quiescent
    /\ \A e \in Endpoints :
           ZeroHandlesDone(e) /\ ~other[e] /\ Has(e, PEER_CLOSED)

(***************************************************************************)
(* Reference counts.  An endpoint is referenced by its handles, by other_  *)
(* of its peer and by the local RefPtr `other' of every operation that     *)
(* copied (or, in on_zero_handles, moved) other_ of its peer and has not   *)
(* returned yet; it is destroyed when no reference is left.                *)
(***************************************************************************)
(* The steps that run on th[t].self through the local reference `other'. *)
PeerStagePcs ==
    {"WriteSelf", "WriteSelfPeer", "ShutdownOther", "OnPeerZeroHandles",
     "WriteControlSelf", "WriteControlSelfPeer", "ShareSelf", "ShareSelfPeer",
     "UserSignalSelf"}

(* The steps that update the signals of the peer of th[t].self: through *)
(* other_ with lock_ held, or, in ShareSelf, through a local reference  *)
(* after lock_ was released.                                            *)
CrossPcs ==
    {"WriteSelfPeer", "ReadPeer", "WriteControlSelfPeer", "ReadControlPeer",
     "AcceptPeer", "ShareSelfPeer"}

(* A faulty variant: the peer kept as a plain pointer, which holds no *)
(* reference.                                                         *)
LocalRefs_Plain(e) == {}

(* The threads that hold a local reference to e. *)
LocalRefs(e) ==
    {t \in Threads :
        \/ th[t].pc \in PeerStagePcs /\ th[t].self = e
        \/ th[t].pc = "ShareSelfPeer" /\ th[t].self = Peer(e)}

RefCount(e) ==
    (IF handles[e] THEN 1 ELSE 0) + (IF other[Peer(e)] THEN 1 ELSE 0)
    + Cardinality(LocalRefs(e))

Destroyed(e) == RefCount(e) = 0

(* The endpoints the next step of thread t acts on. *)
Touches(t) ==
    IF Idle(t) THEN {}
    ELSE {th[t].self} \cup (IF th[t].pc \in CrossPcs THEN {Peer(th[t].self)} ELSE {})

(* No thread is about to act on a destroyed endpoint. *)
NoUseAfterDestruction ==
    \A t \in Threads : \A e \in Touches(t) : ~Destroyed(e)

(* A step in which a thread gets a local reference to e copies other_ of *)
(* e's peer, which is not null, while no other thread holds lock_ of     *)
(* that peer.                                                            *)
ReferenceTaken ==
    \A t \in Threads, e \in Endpoints :
        (t \notin LocalRefs(e) /\ t \in LocalRefs(e)') =>
            /\ other[Peer(e)]
            /\ Free(Peer(e))
            /\ ~Destroyed(e)

(* C36: every two-stage operation (Write, WriteControl, Share, Shutdown,  *)
(* user_signal with peer, on_zero_handles) takes its own strong reference *)
(* to the peer while holding its own lock, so in every interleaving with  *)
(* on_zero_handles on either endpoint the second stage acts on an         *)
(* endpoint whose reference count is positive; no operation reaches an    *)
(* endpoint that has been destroyed.                                      *)
C36_NoUseAfterDestruction == []NoUseAfterDestruction /\ [][ReferenceTaken]_vars

(* A WriteSelf is about to run on an endpoint that has lost its handles  *)
(* and that its peer no longer refers to: the writer's local reference   *)
(* is the only one left.                                                 *)
C36_Witness ==
    \E t \in Threads :
        /\ th[t].pc = "WriteSelf"
        /\ ~handles[th[t].self] /\ ~other[Peer(th[t].self)]
        /\ RefCount(th[t].self) = 1
        /\ ENABLED WriteSelf(t)

(***************************************************************************)
(* Properties of a completed shutdown.                                     *)
(***************************************************************************)
(* No step adds bytes to the inbound buffer of an endpoint whose peer has *)
(* completed Shutdown(WRITE).                                             *)
NoGrowthAfterShutdown ==
    \A e \in Endpoints :
        HalfClosed(e) => Size(data'[e]) <= Size(data[e])

(* C38: once Shutdown(WRITE) on an endpoint has returned, the inbound     *)
(* buffer of its peer never grows again: no Write on the endpoint, one    *)
(* that had passed its WRITE_DISABLED test before the shutdown took       *)
(* effect included, deposits bytes into the peer afterwards.              *)
C38_NoWriteAfterShutdown == [][NoGrowthAfterShutdown]_vars

(* No Shutdown is between its two stages. *)
NoShutdownInProgress == \A t \in Threads : th[t].pc # "ShutdownOther"

(* C39: in every state where both endpoints are still linked and no       *)
(* Shutdown call is in progress, WRITE_DISABLED is set on an endpoint if  *)
(* and only if the read_disabled latch of its peer is true, after any     *)
(* sequence of Shutdown calls with any how on either endpoint, the calls  *)
(* that return early included.                                            *)
C39_ShutdownSymmetry ==
    ((\A e \in Endpoints : other[e]) /\ NoShutdownInProgress) =>
        \A e \in Endpoints : Has(e, WRITE_DISABLED) <=> read_disabled[Peer(e)]

(* One direction of a linked pair is shut down and the other is not, the  *)
(* shut-down direction still holds bytes, and a further Shutdown(WRITE)   *)
(* on the writing endpoint returns early.                                 *)
C39_Witness ==
    \E e \in Endpoints :
        /\ Quiescent /\ Linked
        /\ Has(e, WRITE_DISABLED) /\ read_disabled[Peer(e)]
        /\ ~Has(Peer(e), WRITE_DISABLED) /\ ~read_disabled[e]
        /\ ~is_empty(Peer(e))
        /\ ShutdownReturnsEarly(signals, e, {SHUTDOWN_WRITE})

(* The signal bits that latch. *)
LatchBits == {PEER_CLOSED, WRITE_DISABLED, READ_DISABLED}

(* No step clears a latched bit or a latch of an endpoint, or sets a peer *)
(* reference that is null.                                                *)
LatchesKept ==
    \A e \in Endpoints :
        /\ (signals[e] \cap LatchBits) \subseteq signals'[e]
        /\ read_disabled[e] => read_disabled'[e]
        /\ ~other[e] => ~other'[e]

(* C40: once set on an endpoint, PEER_CLOSED, WRITE_DISABLED,             *)
(* READ_DISABLED and the read_disabled latch are never cleared by any     *)
(* later operation on either endpoint, and a peer reference that has      *)
(* become null never becomes non-null again.                              *)
C40_LatchesMonotonic == [][LatchesKept]_vars

(* An open endpoint on which every latch is set and whose peer reference  *)
(* is null can still be operated on.                                      *)
C40_Witness ==
    \E e \in Endpoints, t \in Threads :
        /\ Quiescent /\ handles[e] /\ ~other[e]
        /\ LatchBits \subseteq signals[e]
        /\ read_disabled[e]
        /\ ENABLED Shutdown(t, e, {SHUTDOWN_READ, SHUTDOWN_WRITE})
        /\ ENABLED Accept(t, e)

(***************************************************************************)
(* Fair scheduling.  All the operations on a datagram pair with            *)
(* HAS_CONTROL and HAS_ACCEPT: data, control messages and handles go from  *)
(* endpoint 0 to endpoint 1, either endpoint may be shut down or closed.   *)
(* lock_ is a mutex that hands the lock to a thread that keeps asking for  *)
(* it, and a running thread is scheduled again: a thread inside an         *)
(* operation whose next step is possible again and again takes it.         *)
(***************************************************************************)
InitLive ==
    /\ bytes = {0}
    /\ observed = FALSE
    /\ InitPair({DATAGRAM, HAS_CONTROL, HAS_ACCEPT})

DoShare0 == \E t \in Threads : Share(t, 0, "plain")
DoAccept1 == \E t \in Threads : Accept(t, 1)
DoUserSignalPeer == \E t \in Threads : user_signal(t, 0, {}, {USER_SIGNAL_0}, TRUE)
DoShutdownBoth == \E t \in Threads :
                      Shutdown(t, 1, {SHUTDOWN_READ, SHUTDOWN_WRITE})

NextLive ==
    \/ DoWriteFrame
    \/ DoWriteSelf
    \/ DoWriteSelfPeer
    \/ DoReadFrame
    \/ DoReadPeer
    \/ DoShutdownBoth
    \/ DoShutdownOther
    \/ DoWriteControl0
    \/ DoWriteControlSelf
    \/ DoWriteControlSelfPeer
    \/ DoReadControl1
    \/ DoReadControlPeer
    \/ DoShare0
    \/ DoShareSelf
    \/ DoShareSelfPeer
    \/ DoAccept1
    \/ DoAcceptPeer
    \/ DoUserSignalPeer
    \/ DoUserSignalSelf
    \/ DoZeroHandles
    \/ DoOnPeerZeroHandles

SpecLive ==
    /\ InitLive
    /\ [][NextLive]_vars
    /\ \A t \in Threads : SF_vars(Continue(t))

InitErrors ==
    /\ bytes = {0}
    /\ observed = TRUE
    /\ \/ InitPair({DATAGRAM, HAS_CONTROL, HAS_ACCEPT})
       \/ InitPair({})

(* What the writers call on endpoint 0 and the readers on endpoint 1. *)
DoWriteControlW == \E t \in Writers, len \in CtlLens, ok \in BOOLEAN :
                       WriteControl(t, 0, len, ok)
DoReadControlR == \E t \in Readers, len \in CtlLens, ok \in BOOLEAN :
                      ReadControl(t, 1, len, ok)
DoShareW == \E t \in Writers : Share(t, 0, "plain")
DoAcceptR == \E t \in Readers : Accept(t, 1)
DoUserSignalW == \E t \in Writers, set_mask \in {{USER_SIGNAL_0}, {READABLE}} :
                     user_signal(t, 0, {}, set_mask, TRUE)
DoShutdownR == \E t \in Readers : Shutdown(t, 1, {SHUTDOWN_READ, SHUTDOWN_WRITE})

NextErrors ==
    \/ DoWrite0
    \/ DoWriteSelf
    \/ DoWriteSelfPeer
    \/ DoRead1
    \/ DoReadPeer
    \/ DoShutdownR
    \/ DoShutdownOther
    \/ DoWriteControlW
    \/ DoWriteControlSelf
    \/ DoWriteControlSelfPeer
    \/ DoReadControlR
    \/ DoReadControlPeer
    \/ DoShareW
    \/ DoShareSelf
    \/ DoShareSelfPeer
    \/ DoAcceptR
    \/ DoAcceptPeer
    \/ DoUserSignalW
    \/ DoUserSignalSelf
    \/ DoZeroHandles
    \/ DoOnPeerZeroHandles

SpecErrors == InitErrors /\ [][NextErrors]_vars

Operations ==
    {"Write", "Read", "WriteControl", "ReadControl", "Share", "Accept", "user_signal"}

Errors ==
    {"PEER_CLOSED", "BAD_STATE", "SHOULD_WAIT", "INVALID_ARGS", "OUT_OF_RANGE",
     "NOT_SUPPORTED"}

(* A step of thread t in Write, Read, WriteControl, ReadControl, Share, *)
(* Accept or user_signal, or in the stage of one of them that runs on   *)
(* the peer.                                                            *)
OperationStep(t) ==
    \/ \E e \in Endpoints, len \in Lens, ok \in BOOLEAN : Write(t, e, len, ok)
    \/ \E e \in Endpoints, dst \in BOOLEAN, len \in Lens : Read(t, e, dst, len)
    \/ \E e \in Endpoints, len \in CtlLens, ok \in BOOLEAN :
           WriteControl(t, e, len, ok) \/ ReadControl(t, e, len, ok)
    \/ \E e \in Endpoints, h \in Handles : Share(t, e, h)
    \/ \E e \in Endpoints : Accept(t, e)
    \/ \E e \in Endpoints, set_mask \in {{USER_SIGNAL_0}, {READABLE}}, peer \in BOOLEAN :
           user_signal(t, e, {}, set_mask, peer)
    \/ WriteSelf(t) \/ WriteControlSelf(t) \/ ShareSelf(t) \/ UserSignalSelf(t)

(* The step in which one of these operations returns an error changes no *)
(* signal, latch, buffer, slot or reference of either endpoint, and      *)
(* neither does the step that precedes the stage on the peer.            *)
FailedStep ==
    \A t \in Threads :
        (/\ th'[t] # th[t]
         /\ \/ /\ Idle(t)'
               /\ th'[t].ret.op \in Operations
               /\ th'[t].ret.status \in Errors
            \/ th'[t].pc \in {"WriteSelf", "WriteControlSelf", "ShareSelf",
                               "UserSignalSelf"}) =>
            UNCHANGED <<signals, read_disabled, data, control_msg, accept_queue, other,
                        handles, lock>>

(* An operation that returns the error its thread returned last leaves *)
(* the thread as it was; it changes nothing either.                    *)
FailedAgainStep ==
    \A t \in Threads :
        (/\ th' = th
         /\ Idle(t) /\ th[t].ret.status \in Errors
         /\ OperationStep(t)) => UNCHANGED vars

(* C37: whenever Write, Read, WriteControl, ReadControl, Share, Accept or *)
(* user_signal returns an error, a full-buffer write, a datagram that     *)
(* does not fit and a failed user-memory copy included, the signals,      *)
(* latches, inbound buffers, control slots and accept slots of both       *)
(* endpoints are as the operation found them.                             *)
C37_FailedOperationsChangeNothing == [][FailedStep /\ FailedAgainStep]_vars

(* A datagram that did not fit into the room left has been refused with *)
(* SHOULD_WAIT, and a ReadControl whose copy failed has returned         *)
(* INVALID_ARGS with the message still in the slot.                      *)
C37_Witness ==
    \E w \in Writers, r \in Readers :
        /\ Quiescent /\ Linked /\ IsDatagram
        /\ th[w].ret = Result("Write", 0, "SHOULD_WAIT", 0, <<>>)
        /\ ~is_empty(1) /\ ~is_full(1)
        /\ th[r].ret = Result("ReadControl", 1, "INVALID_ARGS", 0, <<>>)
        /\ control_msg[1] # <<>> /\ Has(1, CONTROL_READABLE)

====
